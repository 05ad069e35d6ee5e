-------------------------- MODULE RetailServiceProofs --------------------------
(***************************************************************************)
(* The safety of RetailService: that the retained status is online while   *)
(* the service runs and has been heard, that no capture and no pipeline    *)
(* outlives the thread that would close it, and the types, for every limit *)
(* and bound, and whether or not the worker and the capture calls outlast  *)
(* the joins that wait for them.                                           *)
(*                                                                         *)
(* What makes the status honest is not a fact about the status: at most    *)
(* one connection has a session (Lines), so that no will but the one of    *)
(* the open connection can speak after its birth message; main has a call  *)
(* in progress only where it waits for one (Calling), and until main has   *)
(* said offline nothing but the birth message can be on its way.           *)
(***************************************************************************)
EXTENDS RetailService, SequenceTheorems, TLAPS

Messages == {"connect", "online", "offline", "disconnect"}

Connection == [wire : Seq(Messages), client : BOOLEAN, net : BOOLEAN, session : BOOLEAN]

Wires ==
    /\ conns \in Seq(Connection) /\ sock \in 0 .. Len(conns)
    /\ retained \in {"none", "online", "offline"}
    /\ call \in [by : {"nobody", "main", "worker"},
                 what : {"nothing", "result", "connect", "offline", "close"}, attempt : {0, 1}]

Flags ==
    /\ started \in BOOLEAN /\ running \in BOOLEAN /\ cap \in BOOLEAN /\ fresh \in BOOLEAN
    /\ pipeline \in BOOLEAN /\ error \in BOOLEAN /\ RUNNING \in BOOLEAN

Places ==
    /\ camera \in {"up", "down"} /\ active \in {"primary", "fallback"}
    /\ reader \in {"none", "check", "open", "read", "store", "reopen", "ended"}
    /\ worker \in {"none", "loop", "read", "publish", "publishing", "switch", "close", "ended"}
    /\ main \in {"connect", "connecting", "watch", "join", "offline", "going", "close",
                 "closing", "exit", "gone"}
    /\ worker = "none" <=> main \in {"connect", "connecting"}

\* A source is read, and its failures counted, only until it is given up.
Counts ==
    /\ outages \in 0 .. MaxOutages /\ bad \in 0 .. ReadFailureLimit - 1
    /\ failures \in 0 .. FailureLimit
    /\ worker \notin {"switch", "close", "ended"} => failures < FailureLimit

\* What the thread that holds the publisher's lock is doing there.
Calling ==
    /\ call.by = "nobody" => call.what = "nothing"
    /\ call.by = "worker" => call.what = "result"
    /\ call.by = "main" =>
          \/ main = "connecting" /\ call.what = "connect"
          \/ main = "going" /\ call.what = "offline"
          \/ main = "closing" /\ call.what = "close"

\* main's publish_offline is over, whether or not it left anything.
Farewell == main \in {"close", "closing", "exit", "gone"} \/ (main = "going" /\ call.by # "main")

\* The open connection: what it has still to say, and what was heard of it.
Open(wire, session, status, farewell) ==
    /\ Len(wire) <= IF farewell THEN 2 ELSE 1
    /\ ~farewell => \/ wire = <<"online">>
                    \/ wire = <<>> /\ (session => status = "online")

Lines ==
    /\ \A c, d \in DOMAIN conns : conns[c].session /\ conns[d].session => c = d
    /\ \A c \in DOMAIN conns :
          /\ Len(conns[c].wire) <= 3
          /\ c = sock => Open(conns[c].wire, conns[c].session, retained, Farewell)

\* The reader that is not there has no capture; the worker that is not there no pipeline.
Owned ==
    /\ reader \in {"none", "ended"} => ~cap
    /\ worker = "ended" => ~pipeline

IInv == Wires /\ Flags /\ Places /\ Counts /\ Calling /\ Lines /\ Owned
-----------------------------------------------------------------------------
(* Connections                                                             *)

\* A connection is replaced by another state of it.
LEMMA ReplaceOne ==
    ASSUME NEW S, NEW s \in Seq(S), NEW i \in DOMAIN s, NEW v \in S,
           NEW t, t = [s EXCEPT ![i] = v]
    PROVE  /\ t \in Seq(S) /\ Len(t) = Len(s) /\ DOMAIN t = DOMAIN s
           /\ t[i] = v /\ \A j \in DOMAIN s : j # i => t[j] = s[j]
<1>1. /\ Len(s) \in Nat /\ DOMAIN s = 1 .. Len(s) /\ s \in [1 .. Len(s) -> S]
  BY LenProperties
<1>2. t \in [1 .. Len(s) -> S]
  BY <1>1
<1>3. t \in Seq(S) /\ Len(t) = Len(s) /\ DOMAIN t = DOMAIN s
  BY <1>1, <1>2, SeqDef
<1> QED BY <1>3

LEMMA OneConnection ==
    ASSUME Wires, NEW c \in DOMAIN conns
    PROVE  /\ Len(conns) \in Nat /\ c \in 1 .. Len(conns)
           /\ conns[c] \in Connection /\ conns[c].wire \in Seq(Messages)
           /\ Len(conns[c].wire) \in Nat
<1>1. Len(conns) \in Nat /\ c \in 1 .. Len(conns)
  BY LenProperties DEF Wires
<1>2. conns[c] \in Connection
  BY <1>1, ElementOfSeq DEF Wires
<1>3. conns[c].wire \in Seq(Messages)
  BY <1>2 DEF Connection
<1> QED BY <1>1, <1>2, <1>3, LenProperties

\* What was begun, or ended, elsewhere leaves the connections as sound as they were.
LEMMA LinesKept ==
    ASSUME IInv, UNCHANGED <<conns, sock, retained>>, Farewell => Farewell',
           call' \in {call, NoCall, [call EXCEPT !.attempt = 1]} \/ (\E by \in {"main", "worker"},
                what \in {"result", "connect", "offline", "close"} : Begin(by, what))
    PROVE  Lines' /\ Wires'
<1>1. Wires'
  BY DEF IInv, Wires, NoCall, Begin
<1>2. ASSUME NEW c \in DOMAIN conns, c = sock
      PROVE  Open(conns[c].wire, conns[c].session, retained, Farewell')
  <2>1. Open(conns[c].wire, conns[c].session, retained, Farewell)
    BY <1>2 DEF IInv, Lines
  <2>2. Len(conns[c].wire) \in Nat
    BY OneConnection DEF IInv
  <2> QED BY <2>1, <2>2 DEF Open
<1>3. Lines'
  <2>1. conns' = conns /\ sock' = sock /\ retained' = retained
    OBVIOUS
  <2> HIDE DEF Open
  <2> QED BY <2>1, <1>2, Zenon DEF IInv, Lines
<1> QED BY <1>1, <1>3

\* One connection goes on, and main with it: what is to be shown of them.
LEMMA OneLineChanges ==
    ASSUME IInv, NEW c \in DOMAIN conns, NEW v \in Connection,
           conns' = [conns EXCEPT ![c] = v], sock' \in {sock, 0}, Farewell => Farewell',
           v.session => conns[c].session, Len(v.wire) <= 3,
           c = sock' => Open(v.wire, v.session, retained', Farewell'),
           sock' # 0 /\ sock' # c => retained' = retained \/ ~conns[sock'].session
    PROVE  Lines' /\ conns' \in Seq(Connection) /\ Len(conns') = Len(conns)
<1>1. /\ conns' \in Seq(Connection) /\ Len(conns') = Len(conns) /\ DOMAIN conns' = DOMAIN conns
      /\ conns'[c] = v /\ \A d \in DOMAIN conns : d # c => conns'[d] = conns[d]
  BY ReplaceOne DEF IInv, Wires
<1>2. ASSUME NEW d \in DOMAIN conns', NEW e \in DOMAIN conns',
             conns'[d].session, conns'[e].session
      PROVE  d = e
  <2>1. d \in DOMAIN conns /\ e \in DOMAIN conns
    BY <1>1
  <2>2. conns[d].session /\ conns[e].session
    BY <2>1, <1>1, <1>2
  <2> QED BY <2>1, <2>2 DEF IInv, Lines
<1>3. ASSUME NEW d \in DOMAIN conns'
      PROVE  /\ Len(conns'[d].wire) <= 3
             /\ d = sock' => Open(conns'[d].wire, conns'[d].session, retained', Farewell')
  <2>1. CASE d = c
    BY <2>1, <1>1 DEF IInv, Lines
  <2>2. CASE d # c
    <3>1. /\ conns'[d] = conns[d] /\ d \in DOMAIN conns
          /\ Len(conns[d].wire) <= 3
          /\ d = sock => Open(conns[d].wire, conns[d].session, retained, Farewell)
      BY <2>2, <1>1 DEF IInv, Lines
    <3>2. ASSUME d = sock'
          PROVE  Open(conns[d].wire, conns[d].session, retained', Farewell')
      <4>1. d = sock /\ (retained' = retained \/ ~conns[d].session)
        <5>1. d \in 1 .. Len(conns) /\ Len(conns) \in Nat
          BY <3>1, LenProperties DEF IInv, Wires
        <5> QED BY <5>1, <3>2, <2>2
      <4>2. Len(conns[d].wire) \in Nat
        BY <3>1, OneConnection DEF IInv
      <4> QED BY <3>1, <4>1, <4>2 DEF Open
    <3> QED BY <3>1, <3>2, <1>1
  <2> QED BY <2>1, <2>2
<1> QED BY <1>1, <1>2, <1>3 DEF Lines

-----------------------------------------------------------------------------
(* Steps                                                                   *)

\* Camera and reader touch neither the connections nor the calls.
LEMMA VideoSteps ==
    ASSUME IInv, VideoAssumption, UNCHANGED <<procVars, mqttVars>>,
           (main # "gone" /\ Reader) \/ Camera
    PROVE  IInv'
<1> USE DEF IInv, procVars, mqttVars
<1>1. Lines' /\ Wires' /\ Calling'
  BY LinesKept DEF Calling, Farewell
<1>2. Places' /\ Counts' /\ Flags' /\ Owned'
  <2>1. CASE ReaderCheck
    <3>1. Places' /\ Counts'
      BY <2>1 DEF ReaderCheck, ReaderGoes, consumerOnly, LetsGo, Places, Counts
    <3>2. Flags' /\ Owned'
      BY <2>1, Zenon DEF ReaderCheck, ReaderGoes, consumerOnly, LetsGo, Flags, Owned, Places
    <3> QED BY <3>1, <3>2
  <2>2. CASE ReaderOpen
    <3>1. Places' /\ Counts'
      BY <2>2 DEF ReaderOpen, ReaderGoes, consumerOnly, Places, Counts, VideoAssumption
    <3>2. /\ reader' \notin {"none", "ended"} /\ cap' \in BOOLEAN
          /\ UNCHANGED <<started, running, fresh, pipeline, worker>>
      BY <2>2 DEF ReaderOpen, ReaderGoes, consumerOnly, Flags
    <3>3. Flags' /\ Owned'
      BY <3>2, Zenon DEF Flags, Owned
    <3> QED BY <3>1, <3>3
  <2>3. CASE ReopenWait
    <3>1. Places' /\ Counts'
      BY <2>3 DEF ReopenWait, ReaderGoes, consumerOnly, Places, Counts
    <3>2. Flags' /\ Owned'
      BY <2>3, Zenon DEF ReopenWait, ReaderGoes, consumerOnly, Flags, Owned, Places
    <3> QED BY <3>1, <3>2
  <2>4. CASE ReaderRead
    <3>1. Places' /\ Counts'
      BY <2>4 DEF ReaderRead, ReaderGoes, consumerOnly, Places, Counts, VideoAssumption
    <3>2. Flags' /\ Owned'
      BY <2>4, Zenon DEF ReaderRead, ReaderGoes, consumerOnly, Flags, Owned, Places
    <3> QED BY <3>1, <3>2
  <2>5. CASE ReaderStore
    <3>1. Places' /\ Counts'
      BY <2>5 DEF ReaderStore, ReaderGoes, consumerOnly, Places, Counts, VideoAssumption
    <3>2. Flags' /\ Owned'
      BY <2>5, Zenon DEF ReaderStore, ReaderGoes, consumerOnly, Flags, Owned, Places
    <3> QED BY <3>1, <3>2
  <2>6. CASE Camera
    <3>1. Places' /\ Counts'
      BY <2>6 DEF Camera, consumerOnly, Places, Counts, VideoAssumption
    <3>2. Flags' /\ Owned'
      BY <2>6, Zenon DEF Camera, consumerOnly, Flags, Owned, Places
    <3> QED BY <3>1, <3>2
  <2> QED BY <2>1, <2>2, <2>3, <2>4, <2>5, <2>6 DEF Reader
<1> QED BY <1>1, <1>2

\* The worker touches the connections only through the publisher.
LEMMA WorkerSteps ==
    ASSUME IInv, VideoAssumption, main # "gone", Worker
    PROVE  IInv'
<1> USE DEF IInv
<1>1. CASE Loop
  <2>1. Lines' /\ Wires' /\ Calling'
    BY <1>1, LinesKept DEF Loop, WorkerGoes, mqttVars, Calling, Farewell
  <2>2. Places' /\ Counts'
    BY <1>1 DEF Loop, WorkerGoes, videoVars, Places, Counts
  <2>3. Flags' /\ Owned'
    BY <1>1, Zenon DEF Loop, WorkerGoes, videoVars, Flags, Owned, Places
  <2> QED BY <2>1, <2>2, <2>3
<1>2. CASE Start
  <2>1. Lines' /\ Wires' /\ Calling'
    BY <1>2, LinesKept DEF Start, procVars, mqttVars, Calling, Farewell
  <2>2. Places' /\ Counts'
    BY <1>2 DEF Start, PrimaryStart, procVars, Places, Counts
  <2>3. Flags' /\ Owned'
    BY <1>2, Zenon DEF Start, PrimaryStart, procVars, Flags, Owned, Places
  <2> QED BY <2>1, <2>2, <2>3
<1>3. CASE Read
  <2>1. /\ UNCHANGED <<RUNNING, main, call, sock, conns, retained, camera, outages, active, cap, bad>>
        /\ UNCHANGED <<started, running, reader>> /\ worker = "read"
        /\ worker' \in {"switch", "close", "loop", "publish"}
    BY <1>3 DEF Read, PrimaryRead, FallbackRead, WorkerGoes, mqttVars
  <2>2. fresh' \in BOOLEAN /\ pipeline' \in BOOLEAN /\ error' \in BOOLEAN
    BY <1>3, Zenon DEF Read, PrimaryRead, FallbackRead, CanSwitch, Flags, VideoAssumption
  <2>3. /\ failures' \in 0 .. FailureLimit
        /\ worker' \notin {"switch", "close"} => failures' < FailureLimit
    BY <1>3 DEF Read, WorkerGoes, Fails, Count, Counts, VideoAssumption, Got, Nothing, Raised
  <2>4. Lines' /\ Wires' /\ Calling'
    BY <2>1, LinesKept DEF Farewell, Calling
  <2>5. Flags' /\ Owned'
    BY <2>1, <2>2, Zenon DEF Flags, Owned
  <2>6. Places' /\ Counts'
    BY <2>1, <2>3 DEF Places, Counts
  <2> QED BY <2>4, <2>5, <2>6
<1>4. CASE WorkerPublish
  <2>1. Lines' /\ Wires' /\ Calling'
    BY <1>4, LinesKept DEF WorkerPublish, Begin, WorkerGoes, mqttVars, Farewell, NoCall, Calling
  <2>2. Places' /\ Counts'
    BY <1>4 DEF WorkerPublish, WorkerGoes, videoVars, Places, Counts
  <2>3. Flags' /\ Owned'
    BY <1>4, Zenon DEF WorkerPublish, WorkerGoes, videoVars, Flags, Owned, Places
  <2> QED BY <2>1, <2>2, <2>3
<1>5. CASE Stop
  <2>1. Lines' /\ Wires' /\ Calling'
    BY <1>5, LinesKept DEF Stop, procVars, mqttVars, Farewell, Calling
  <2>2. Places' /\ Counts'
    BY <1>5 DEF Stop, procVars, Places, Counts
  <2>3. Flags' /\ Owned'
    BY <1>5, Zenon DEF Stop, procVars, Flags, Owned, Places
  <2> QED BY <2>1, <2>2, <2>3
<1>6. CASE Switched
  <2>1. Lines' /\ Wires' /\ Calling'
    BY <1>6, LinesKept DEF Switched, WorkerGoes, mqttVars, Farewell, Calling
  <2>2. Places' /\ Counts'
    BY <1>6 DEF Switched, WorkerGoes, Places, Counts, VideoAssumption
  <2>3. Flags' /\ Owned'
    BY <1>6, Zenon DEF Switched, WorkerGoes, Flags, Owned, Places
  <2> QED BY <2>1, <2>2, <2>3
<1>7. CASE Closed
  <2>1. Lines' /\ Wires' /\ Calling'
    BY <1>7, LinesKept DEF Closed, WorkerGoes, mqttVars, Farewell, Calling
  <2>2. Places' /\ Counts'
    BY <1>7 DEF Closed, WorkerGoes, Places, Counts
  <2>3. Flags' /\ Owned'
    BY <1>7, Zenon DEF Closed, WorkerGoes, Flags, Owned, Places
  <2> QED BY <2>1, <2>2, <2>3
<1> QED BY <1>1, <1>2, <1>3, <1>4, <1>5, <1>6, <1>7 DEF Worker

\* main begins a call only where it waits for it, and says offline at most once.
LEMMA MainSteps ==
    ASSUME IInv, main # "gone", Main \/ Signal
    PROVE  IInv'
<1> USE DEF IInv
<1>1. ASSUME NEW what, NEW waiting, Calls(what, waiting),
             <<what, waiting>> \in {<<"connect", "connecting">>, <<"offline", "going">>,
                                    <<"close", "closing">>}
      PROVE  IInv'
  <2>1. Lines' /\ Wires' /\ Calling'
    BY <1>1, LinesKept DEF Calls, Begin, MainGoes, Farewell, Calling, NoCall
  <2>2. Places' /\ Counts'
    BY <1>1 DEF Calls, MainGoes, videoVars, Places, Counts
  <2>3. Flags' /\ Owned'
    BY <1>1, Zenon DEF Calls, MainGoes, videoVars, Flags, Owned, Places
  <2> QED BY <2>1, <2>2, <2>3
<1>2. ASSUME NEW waiting, NEW to, Returned(waiting, to),
             <<waiting, to>> \in {<<"connecting", "watch">>, <<"going", "close">>,
                                  <<"closing", "exit">>}
      PROVE  IInv'
  <2>1. Lines' /\ Wires' /\ Calling'
    BY <1>2, LinesKept DEF Returned, MainGoes, mqttVars, Farewell, Calling
  <2>2. Places' /\ Counts'
    BY <1>2 DEF Returned, MainGoes, videoVars, Places, Counts
  <2>3. Flags' /\ Owned'
    BY <1>2, Zenon DEF Returned, MainGoes, videoVars, Flags, Owned, Places
  <2> QED BY <2>1, <2>2, <2>3
<1>3. CASE Watch
  <2>1. Lines' /\ Wires' /\ Calling'
    BY <1>3, LinesKept DEF Watch, MainGoes, mqttVars, Farewell, Calling
  <2>2. Places' /\ Counts'
    BY <1>3 DEF Watch, MainGoes, videoVars, Places, Counts
  <2>3. Flags' /\ Owned'
    BY <1>3, Zenon DEF Watch, MainGoes, videoVars, Flags, Owned, Places
  <2> QED BY <2>1, <2>2, <2>3
<1>4. CASE Join
  <2>1. Lines' /\ Wires' /\ Calling'
    BY <1>4, LinesKept DEF Join, MainGoes, mqttVars, Farewell, Calling
  <2>2. Places' /\ Counts'
    BY <1>4 DEF Join, MainGoes, videoVars, Places, Counts
  <2>3. Flags' /\ Owned'
    BY <1>4, Zenon DEF Join, MainGoes, videoVars, Flags, Owned, Places
  <2> QED BY <2>1, <2>2, <2>3
<1>5. CASE Exit
  <2> DEFINE ended(c) == [conns[c] EXCEPT !.client = FALSE]
  <2>1. ASSUME NEW c \in DOMAIN conns
        PROVE  /\ ended(c) \in Connection /\ ended(c).session = conns[c].session
               /\ ended(c).wire = conns[c].wire
    BY OneConnection DEF Connection
  <2>2. conns' = [c \in DOMAIN conns |-> ended(c)]
    BY <1>5 DEF Exit
  <2> HIDE DEF ended
  <2>3. /\ conns' \in Seq(Connection) /\ Len(conns') = Len(conns)
        /\ DOMAIN conns' = DOMAIN conns /\ Len(conns) \in Nat /\ DOMAIN conns = 1 .. Len(conns)
        /\ \A c \in DOMAIN conns : conns'[c] = ended(c)
    <3>1. DOMAIN conns = 1 .. Len(conns) /\ Len(conns) \in Nat
      BY LenProperties DEF Wires
    <3>2. conns' \in [1 .. Len(conns) -> Connection]
      BY <3>1, <2>1, <2>2
    <3>3. conns' \in Seq(Connection) /\ Len(conns') = Len(conns)
      BY <3>1, <3>2, SeqDef
    <3> QED BY <3>1, <3>3, <2>2
  <2>4. sock' = 0 /\ call' = NoCall /\ retained' = retained /\ main' = "gone"
    BY <1>5 DEF Exit
  <2>5. Lines'
    <3>1. ASSUME NEW c \in DOMAIN conns'
          PROVE  /\ conns'[c].session = conns[c].session
                 /\ Len(conns'[c].wire) <= 3 /\ c # sock'
      <4>1. Len(conns[c].wire) <= 3
        BY <2>3 DEF Lines
      <4> QED BY <2>1, <2>3, <2>4, <4>1
    <3>2. \A c, d \in DOMAIN conns' : conns'[c].session /\ conns'[d].session => c = d
      BY <3>1, <2>3, Zenon DEF Lines
    <3> QED BY <3>1, <3>2, <2>4 DEF Lines
  <2>6. Wires' /\ Calling'
    BY <2>3, <2>4 DEF NoCall, Wires, Calling
  <2>7. Places' /\ Counts'
    BY <1>5 DEF Exit, Places, Counts
  <2>8. Flags' /\ Owned'
    BY <1>5, Zenon DEF Exit, Flags, Owned, Places
  <2> QED BY <2>5, <2>6, <2>7, <2>8
<1>6. CASE Signal
  <2>1. Lines' /\ Wires' /\ Calling'
    BY <1>6, LinesKept DEF Signal, mqttVars, Farewell, Calling
  <2>2. Places' /\ Counts'
    BY <1>6 DEF Signal, videoVars, Places, Counts
  <2>3. Flags' /\ Owned'
    BY <1>6, Zenon DEF Signal, videoVars, Flags, Owned, Places
  <2> QED BY <2>1, <2>2, <2>3
<1> QED BY <1>1, <1>2, <1>3, <1>4, <1>5, <1>6 DEF Main

\* A step of the publisher or of the broker is none of the worker or of main.
LEMMA NothingElse ==
    ASSUME IInv, UNCHANGED <<videoVars, procVars>>
    PROVE  Flags' /\ Places' /\ Counts' /\ Owned'
BY DEF IInv, videoVars, procVars, Flags, Places, Counts, Owned

\* No session outlives a take-over, and only a pending CONNECT stays on its way.
LEMMA TakeOver ==
    ASSUME IInv
    PROVE  /\ TakenOver \in Seq(Connection) /\ Len(TakenOver) = Len(conns)
           /\ DOMAIN TakenOver = DOMAIN conns
           /\ \A c \in DOMAIN conns :
                 /\ TakenOver[c] \in Connection /\ ~TakenOver[c].session
                 /\ Len(TakenOver[c].wire) <= 3
                 /\ c = sock => TakenOver[c].wire \in {<<>>, conns[c].wire}
<1>1. Len(conns) \in Nat /\ DOMAIN conns = 1 .. Len(conns)
  BY LenProperties DEF IInv, Wires
<1>2. ASSUME NEW c \in DOMAIN conns
      PROVE  /\ TakenOver[c] \in Connection /\ ~TakenOver[c].session
             /\ TakenOver[c].wire \in {<<>>, conns[c].wire}
             /\ Len(TakenOver[c].wire) <= 3
  <2>1. conns[c] \in Connection /\ <<>> \in Seq(Messages) /\ Len(<<>>) = 0
    BY OneConnection DEF IInv
  <2>2. Len(conns[c].wire) <= 3
    BY DEF IInv, Lines
  <2>3. CASE conns[c].session
    <3> DEFINE v == [conns[c] EXCEPT !.session = FALSE, !.wire = <<>>]
    <3>1. TakenOver[c] = v
      BY <2>3 DEF TakenOver
    <3>2. v \in Connection /\ ~v.session /\ v.wire = <<>>
      BY <2>1 DEF Connection
    <3> HIDE DEF v
    <3> QED BY <3>1, <3>2, <2>1
  <2>4. CASE ~conns[c].session
    <3>1. TakenOver[c] = conns[c]
      BY <2>4 DEF TakenOver
    <3> QED BY <3>1, <2>1, <2>2, <2>4
  <2> QED BY <2>3, <2>4
<1>3. TakenOver \in [1 .. Len(conns) -> Connection]
  <2>1. DOMAIN TakenOver = DOMAIN conns
    BY DEF TakenOver
  <2>2. TakenOver = [c \in DOMAIN conns |-> TakenOver[c]]
    BY DEF TakenOver
  <2> QED BY <2>1, <2>2, <1>1, <1>2
<1>4. TakenOver \in Seq(Connection) /\ Len(TakenOver) = Len(conns)
  BY <1>1, <1>3, SeqDef
<1> QED BY <1>1, <1>2, <1>3, <1>4

\* A connection that had no session, and is the newest, joins the others.
LEMMA OneMore ==
    ASSUME NEW z \in Seq(Connection), NEW v \in Connection, NEW t, t = Append(z, v)
    PROVE  /\ t \in Seq(Connection) /\ Len(t) = Len(z) + 1 /\ Len(z) \in Nat
           /\ DOMAIN t = DOMAIN z \cup {Len(z) + 1} /\ Len(z) + 1 \notin DOMAIN z
           /\ t[Len(z) + 1] = v /\ \A c \in DOMAIN z : t[c] = z[c]
<1>1. Len(z) \in Nat /\ DOMAIN z = 1 .. Len(z)
  BY LenProperties
<1>2. t \in Seq(Connection) /\ Len(t) = Len(z) + 1 /\ t[Len(z) + 1] = v
      /\ \A c \in 1 .. Len(z) : t[c] = z[c]
  BY <1>1, AppendProperties
<1>3. DOMAIN t = 1 .. Len(z) + 1
  BY <1>2, LenProperties
<1> QED BY <1>1, <1>2, <1>3

\* A connection is made: the broker ends the session before, and its will speaks first.
LEMMA ConnectionStep ==
    ASSUME IInv, ConnectionMade
    PROVE  Lines' /\ conns' \in Seq(Connection) /\ sock' \in 0 .. Len(conns')
           /\ retained' \in {"none", "online", "offline"}
<1> DEFINE new == [wire |-> <<"online">>, client |-> TRUE, net |-> TRUE, session |-> TRUE]
           n == Len(conns)
<1>1. /\ TakenOver \in Seq(Connection) /\ Len(TakenOver) = n /\ DOMAIN TakenOver = DOMAIN conns
      /\ \A c \in DOMAIN conns : ~TakenOver[c].session /\ Len(TakenOver[c].wire) <= 3
  BY TakeOver
<1>2. new \in Connection /\ new.wire = <<"online">> /\ Len(<<"online">>) = 1
  BY DEF Connection, Messages
<1>3. conns' = Append(TakenOver, new) /\ sock' = n + 1
  BY DEF ConnectionMade, FirstWords
<1>4. retained' \in {"none", "online", "offline"}
  BY DEF ConnectionMade, WillSpeaks, IInv, Wires
<1> HIDE DEF new, n
<1>5. /\ conns' \in Seq(Connection) /\ Len(conns') = n + 1 /\ n \in Nat
      /\ DOMAIN conns' = DOMAIN conns \cup {n + 1} /\ n + 1 \notin DOMAIN conns
      /\ conns'[n + 1] = new /\ \A c \in DOMAIN conns : conns'[c] = TakenOver[c]
  BY <1>1, <1>2, <1>3, OneMore
<1>6. ASSUME NEW c \in DOMAIN conns'
      PROVE  /\ conns'[c].session => c = n + 1
             /\ Len(conns'[c].wire) <= 3
             /\ c = sock' => Open(conns'[c].wire, conns'[c].session, retained', Farewell')
  <2>1. CASE c = n + 1
    <3>1. conns'[c].wire = <<"online">>
      BY <2>1, <1>2, <1>5
    <3>2. Len(conns'[c].wire) <= 3
      BY <3>1, <1>2
    <3>3. Open(<<"online">>, conns'[c].session, retained', Farewell')
      BY <1>2 DEF Open
    <3> QED BY <2>1, <3>1, <3>2, <3>3
  <2>2. CASE c # n + 1
    BY <2>2, <1>1, <1>3, <1>5
  <2> QED BY <2>1, <2>2
<1> QED BY <1>3, <1>4, <1>5, <1>6 DEF Lines

\* A connection that is given up is nothing to the others yet.
LEMMA FailureStep ==
    ASSUME IInv, ConnectionFails, sock = 0
    PROVE  Lines' /\ conns' \in Seq(Connection) /\ sock' \in 0 .. Len(conns')
           /\ retained' \in {"none", "online", "offline"}
<1>1. sock' = 0 /\ retained' = retained
  BY DEF ConnectionFails
<1>2. CASE UNCHANGED conns
  <2>1. conns' \in Seq(Connection) /\ conns' = conns
    BY <1>2 DEF IInv, Wires
  <2>2. Len(conns) \in Nat /\ DOMAIN conns = 1 .. Len(conns)
    BY LenProperties DEF IInv, Wires
  <2> QED BY <1>1, <2>1, <2>2 DEF IInv, Lines, Wires
<1>3. CASE conns' # conns
  <2> DEFINE new == [wire |-> <<"connect">>, client |-> FALSE, net |-> FALSE, session |-> FALSE]
  <2>1. new \in Connection /\ new.wire = <<"connect">> /\ ~new.session /\ Len(<<"connect">>) = 1
    BY DEF Connection, Messages
  <2>2. conns' = Append(conns, new)
    BY <1>3 DEF ConnectionFails
  <2> HIDE DEF new
  <2>3. /\ conns' \in Seq(Connection) /\ Len(conns') = Len(conns) + 1 /\ Len(conns) \in Nat
        /\ DOMAIN conns' = DOMAIN conns \cup {Len(conns) + 1}
        /\ conns'[Len(conns) + 1] = new /\ \A c \in DOMAIN conns : conns'[c] = conns[c]
    BY <2>1, <2>2, OneMore DEF IInv, Wires
  <2>4. ASSUME NEW c \in DOMAIN conns'
        PROVE  /\ conns'[c].session => c \in DOMAIN conns /\ conns[c].session
               /\ Len(conns'[c].wire) <= 3 /\ c # 0
    <3>1. CASE c = Len(conns) + 1
      <4>1. conns'[c] = new /\ c # 0
        BY <3>1, <2>3
      <4>2. ~conns'[c].session /\ Len(conns'[c].wire) = 1
        BY <4>1, <2>1
      <4> QED BY <4>1, <4>2
    <3>2. CASE c \in DOMAIN conns
      <4>1. Len(conns[c].wire) <= 3 /\ c \in 1 .. Len(conns)
        BY <3>2, LenProperties DEF IInv, Lines, Wires
      <4> QED BY <4>1, <3>2, <2>3
    <3> QED BY <3>1, <3>2, <2>3
  <2>5. \A c, d \in DOMAIN conns' : conns'[c].session /\ conns'[d].session => c = d
    BY <2>4, Zenon DEF IInv, Lines
  <2>6. sock' \in 0 .. Len(conns')
    BY <1>1, <2>3
  <2> QED BY <1>1, <2>3, <2>4, <2>5, <2>6 DEF Lines, IInv, Wires
<1> QED BY <1>2, <1>3

\* Nothing but the birth message leaves before main's farewell, and then only the farewell.
LEMMA PublisherSteps ==
    ASSUME IInv, main # "gone", Publisher
    PROVE  IInv'
<1> USE DEF IInv
<1>1. UNCHANGED <<videoVars, procVars>>
  BY DEF Publisher, Connect, Send, Close
<1>2. Flags' /\ Places' /\ Counts' /\ Owned'
  BY <1>1, NothingElse
<1>3. main' = main
  BY <1>1 DEF procVars
<1>4. Retry => call' \in {NoCall, [call EXCEPT !.attempt = 1]}
  BY DEF Retry
<1>5. /\ call' \in {call, NoCall, [call EXCEPT !.attempt = 1]} => Calling'
      /\ call' \in {call, NoCall, [call EXCEPT !.attempt = 1]} => (Farewell => Farewell')
  BY <1>3 DEF Calling, NoCall, Wires, Farewell
<1>6. CASE Connect
  <2>1. CASE ConnectionMade /\ call' = IF call.what = "connect" THEN NoCall ELSE call
    <3>1. /\ Lines' /\ conns' \in Seq(Connection) /\ sock' \in 0 .. Len(conns')
          /\ retained' \in {"none", "online", "offline"}
      BY <2>1, ConnectionStep
    <3>2. call' \in {call, NoCall} /\ Calling'
      BY <2>1, <1>5
    <3>3. Wires'
      BY <3>1, <3>2 DEF Wires, NoCall
    <3> QED BY <3>1, <3>2, <3>3, <1>2
  <2>2. CASE Retry /\ ConnectionFails
    <3>1. /\ Lines' /\ conns' \in Seq(Connection) /\ sock' \in 0 .. Len(conns')
          /\ retained' \in {"none", "online", "offline"}
      BY <2>2, <1>6, FailureStep DEF Connect
    <3>2. call' \in {call, NoCall, [call EXCEPT !.attempt = 1]} /\ Calling'
      BY <2>2, <1>4, <1>5
    <3>3. Wires'
      BY <3>1, <3>2 DEF Wires, NoCall
    <3> QED BY <3>1, <3>2, <3>3, <1>2
  <2> QED BY <1>6, <2>1, <2>2 DEF Connect
<1>7. CASE Send
  <2>1. sock \in DOMAIN conns /\ retained' = retained /\ sock # 0
    <3>1. sock # 0 /\ retained' = retained
      BY <1>7 DEF Send
    <3> QED BY <3>1, LenProperties DEF Wires
  <2>2. CASE Leaves(Packet(call.what)) /\ call' = NoCall /\ UNCHANGED sock
    <3>1. CASE call.what = "result"
      <4>1. UNCHANGED <<conns, sock, retained>>
        BY <2>1, <2>2, <3>1 DEF Leaves, Packet
      <4> QED BY <4>1, <2>2, <1>2, <1>5, LinesKept
    <3>2. CASE call.what = "offline"
      <4> DEFINE w == IF Alive(sock) THEN Append(conns[sock].wire, "offline")
                      ELSE conns[sock].wire
                 v == [conns[sock] EXCEPT !.wire = w]
      <4>1. main = "going" /\ call.by = "main"
        BY <3>2 DEF Calling, Wires
      <4>2. /\ conns[sock] \in Connection /\ conns[sock].wire \in Seq(Messages)
            /\ Len(conns[sock].wire) \in Nat /\ Len(conns[sock].wire) <= 1
        <5>1. Len(conns[sock].wire) <= 1
          BY <2>1, <4>1 DEF Lines, Open, Farewell
        <5> QED BY <5>1, <2>1, OneConnection
      <4>3. w \in Seq(Messages) /\ Len(w) \in Nat /\ Len(w) <= 2
        <5>1. "offline" \in Messages
          BY DEF Messages
        <5> QED BY <5>1, <4>2, AppendProperties
      <4>4. v \in Connection /\ v.wire = w /\ v.session = conns[sock].session
        BY <4>2, <4>3 DEF Connection
      <4>5. conns' = [conns EXCEPT ![sock] = v]
        BY <2>2, <3>2 DEF Leaves, Packet
      <4> HIDE DEF w, v
      <4>6. Farewell'
        BY <2>2, <4>1, <1>3 DEF Farewell, NoCall
      <4>7. Open(v.wire, v.session, retained', Farewell')
        BY <4>3, <4>4, <4>6 DEF Open
      <4>8. /\ Len(v.wire) <= 3 /\ (v.session => conns[sock].session)
            /\ sock' = sock /\ retained' = retained
        BY <2>1, <2>2, <4>3, <4>4
      <4>9. Lines' /\ conns' \in Seq(Connection) /\ Len(conns') = Len(conns)
        BY <2>1, <4>4, <4>5, <4>6, <4>7, <4>8, OneLineChanges
      <4>10. Wires'
        BY <2>2, <4>8, <4>9 DEF Wires, NoCall
      <4> QED BY <2>2, <4>9, <4>10, <1>2, <1>5
    <3> QED BY <1>7, <3>1, <3>2 DEF Send
  <2>3. CASE CloseSocket /\ Retry
    <3> DEFINE v == [conns[sock] EXCEPT !.client = FALSE]
    <3>1. /\ v \in Connection /\ v.session = conns[sock].session /\ v.wire = conns[sock].wire
          /\ Len(v.wire) <= 3
      BY <2>1, OneConnection DEF Connection, Lines
    <3>2. conns' = [conns EXCEPT ![sock] = v] /\ sock' = 0
      BY <2>3 DEF CloseSocket
    <3> HIDE DEF v
    <3>3. call' \in {call, NoCall, [call EXCEPT !.attempt = 1]} /\ sock # sock'
      BY <2>1, <2>3, <3>2, <1>4
    <3>4. Lines' /\ conns' \in Seq(Connection) /\ Len(conns') = Len(conns)
      BY <2>1, <3>1, <3>2, <3>3, <1>5, OneLineChanges
    <3>5. Wires'
      BY <2>1, <3>2, <3>3, <3>4, LenProperties DEF Wires, NoCall
    <3> QED BY <3>3, <3>4, <3>5, <1>2, <1>5
  <2> QED BY <1>7, <2>2, <2>3 DEF Send
<1>8. CASE Close
  <2>1. call' = NoCall /\ retained' = retained /\ Farewell
    BY <1>8 DEF Close, Calling, Wires, Farewell
  <2>2. CASE sock = 0
    <3>1. UNCHANGED <<sock, conns, retained>>
      BY <1>8, <2>1, <2>2 DEF Close
    <3> QED BY <3>1, <2>1, <1>2, <1>5, LinesKept
  <2>3. CASE sock # 0
    <3> DEFINE w == IF Alive(sock) THEN Append(conns[sock].wire, "disconnect")
                    ELSE conns[sock].wire
               v == [conns[sock] EXCEPT !.client = FALSE, !.wire = w]
    <3>1. sock \in DOMAIN conns
      BY <2>3, LenProperties DEF Wires
    <3>2. /\ conns[sock] \in Connection /\ conns[sock].wire \in Seq(Messages)
          /\ Len(conns[sock].wire) \in Nat /\ Len(conns[sock].wire) <= 2
      <4>1. Len(conns[sock].wire) <= 2
        BY <2>1, <3>1 DEF Lines, Open
      <4> QED BY <4>1, <3>1, OneConnection
    <3>3. w \in Seq(Messages) /\ Len(w) <= 3
      <4>1. "disconnect" \in Messages
        BY DEF Messages
      <4> QED BY <4>1, <3>2, AppendProperties
    <3>4. v \in Connection /\ v.wire = w /\ v.session = conns[sock].session
      BY <3>2, <3>3 DEF Connection
    <3>5. conns' = [conns EXCEPT ![sock] = v] /\ sock' = 0
      BY <1>8, <2>3 DEF Close
    <3> HIDE DEF w, v
    <3>6. Lines' /\ conns' \in Seq(Connection) /\ Len(conns') = Len(conns)
      BY <2>1, <2>3, <3>1, <3>3, <3>4, <3>5, <1>5, OneLineChanges
    <3>7. Wires'
      BY <2>1, <3>5, <3>6, LenProperties DEF Wires, NoCall
    <3> QED BY <2>1, <3>6, <3>7, <1>2, <1>5
  <2> QED BY <2>2, <2>3
<1> QED BY <1>6, <1>7, <1>8 DEF Publisher

\* The broker ends sessions and hears what is on its way, the oldest first.
LEMMA BrokerSteps ==
    ASSUME IInv, Broker
    PROVE  IInv'
<1> USE DEF IInv
<1>1. UNCHANGED <<videoVars, procVars, call, sock>>
  BY DEF Broker, Breaks, BrokerReads, BrokerLoses, BrokerAccepts
<1>2. Flags' /\ Places' /\ Counts' /\ Owned'
  BY <1>1, NothingElse
<1>3. Calling' /\ Farewell' = Farewell
  BY <1>1 DEF procVars, Calling, Farewell
<1>4. ASSUME Lines', conns' \in Seq(Connection), Len(conns') = Len(conns),
             retained' \in {"none", "online", "offline"}
      PROVE  IInv'
  BY <1>1, <1>2, <1>3, <1>4 DEF Wires
<1>5. ASSUME NEW c \in DOMAIN conns, conns[c].session, sock # 0, sock # c
      PROVE  ~conns[sock].session
  <2>1. sock \in DOMAIN conns
    BY <1>5, LenProperties DEF Wires
  <2> QED BY <2>1, <1>5 DEF Lines
<1>6. ASSUME NEW c \in DOMAIN conns, Breaks(c)
      PROVE  IInv'
  <2> DEFINE v == [conns[c] EXCEPT !.net = FALSE]
  <2>1. v \in Connection /\ v.session = conns[c].session /\ v.wire = conns[c].wire
    BY OneConnection DEF Connection
  <2>2. conns' = [conns EXCEPT ![c] = v] /\ retained' = retained
    BY <1>6 DEF Breaks
  <2> HIDE DEF v
  <2>3. /\ Len(v.wire) <= 3
        /\ c = sock' => Open(v.wire, v.session, retained', Farewell')
    BY <2>1, <2>2, <1>1, <1>3 DEF Lines
  <2>4. Lines' /\ conns' \in Seq(Connection) /\ Len(conns') = Len(conns)
    BY <2>1, <2>2, <2>3, <1>1, <1>3, OneLineChanges
  <2> QED BY <2>2, <2>4, <1>4 DEF Wires
<1>7. ASSUME NEW c \in DOMAIN conns, BrokerReads(c)
      PROVE  IInv'
  <2> DEFINE p == Head(conns[c].wire)
             v == [conns[c] EXCEPT !.wire = Tail(@), !.session = (p # "disconnect")]
  <2>1. /\ conns[c] \in Connection /\ conns[c].wire \in Seq(Messages)
        /\ conns[c].wire # <<>> /\ Len(conns[c].wire) \in Nat /\ conns[c].session
    BY <1>7, OneConnection DEF BrokerReads
  <2>2. /\ p \in Messages /\ Tail(conns[c].wire) \in Seq(Messages)
        /\ Len(Tail(conns[c].wire)) = Len(conns[c].wire) - 1
    BY <2>1, HeadTailProperties
  <2>3. v \in Connection /\ v.wire = Tail(conns[c].wire) /\ v.session = (p # "disconnect")
    BY <2>1, <2>2 DEF Connection
  <2>4. /\ conns' = [conns EXCEPT ![c] = v]
        /\ retained' = IF p \in {"online", "offline"} THEN p ELSE retained
    BY <1>7 DEF BrokerReads
  <2>5. c = sock' => Open(v.wire, v.session, retained', Farewell')
    <3>1. SUFFICES ASSUME c = sock
                   PROVE  Open(v.wire, v.session, retained', Farewell)
      BY <1>1, <1>3
    <3>2. Open(conns[c].wire, conns[c].session, retained, Farewell)
      BY <3>1 DEF Lines
    <3>3. CASE Farewell
      BY <3>2, <3>3, <2>1, <2>2, <2>3 DEF Open
    <3>4. CASE ~Farewell
      <4>1. conns[c].wire = <<"online">>
        BY <3>2, <3>4, <2>1 DEF Open
      <4>2. p = "online" /\ v.wire = <<>> /\ Len(<<>>) = 0
        BY <4>1, <2>3
      <4>3. retained' = "online"
        BY <4>2, <2>4
      <4> HIDE DEF v
      <4>4. Len(v.wire) <= 1
        BY <4>2
      <4> QED BY <3>4, <4>2, <4>3, <4>4 DEF Open
    <3> QED BY <3>3, <3>4
  <2> HIDE DEF p, v
  <2>6. sock' # 0 /\ sock' # c => ~conns[sock'].session
    BY <2>1, <1>1, <1>5
  <2>7. Len(v.wire) <= 3
    BY <2>1, <2>2, <2>3 DEF Lines
  <2>8. Lines' /\ conns' \in Seq(Connection) /\ Len(conns') = Len(conns)
    <3>1. /\ conns' = [conns EXCEPT ![c] = v] /\ sock' \in {sock, 0} /\ (Farewell => Farewell')
          /\ v.session => conns[c].session
          /\ sock' # 0 /\ sock' # c => retained' = retained \/ ~conns[sock'].session
      BY <2>1, <2>4, <2>6, <1>1, <1>3
    <3> QED BY <3>1, <2>3, <2>5, <2>7, OneLineChanges
  <2>9. retained' \in {"none", "online", "offline"}
    BY <2>4 DEF Wires
  <2> QED BY <2>8, <2>9, <1>4
<1>8. ASSUME NEW c \in DOMAIN conns, BrokerLoses(c)
      PROVE  IInv'
  <2> DEFINE v == [conns[c] EXCEPT !.session = FALSE, !.wire = <<>>]
  <2>1. v \in Connection /\ ~v.session /\ v.wire = <<>> /\ conns[c].session
    <3>1. conns[c] \in Connection /\ <<>> \in Seq(Messages) /\ conns[c].session
      BY <1>8, OneConnection DEF BrokerLoses
    <3> QED BY <3>1 DEF Connection
  <2>2. conns' = [conns EXCEPT ![c] = v] /\ retained' = "offline"
    BY <1>8 DEF BrokerLoses
  <2> HIDE DEF v
  <2>3. Len(<<>>) = 0
    OBVIOUS
  <2>4. Open(v.wire, v.session, retained', Farewell')
    BY <2>1, <2>3 DEF Open
  <2>5. /\ sock' # 0 /\ sock' # c => ~conns[sock'].session
        /\ Len(v.wire) <= 3 /\ sock' = sock
    BY <2>1, <2>3, <1>1, <1>5
  <2>6. Lines' /\ conns' \in Seq(Connection) /\ Len(conns') = Len(conns)
    BY <2>1, <2>2, <2>4, <2>5, <1>3, OneLineChanges
  <2> QED BY <2>2, <2>6, <1>4
<1>9. ASSUME NEW c \in DOMAIN conns, BrokerAccepts(c)
      PROVE  IInv'
  <2> DEFINE v == [TakenOver[c] EXCEPT !.wire = <<>>, !.session = TRUE]
  <2>1. /\ TakenOver \in Seq(Connection) /\ Len(TakenOver) = Len(conns)
        /\ DOMAIN TakenOver = DOMAIN conns
        /\ \A d \in DOMAIN conns :
              /\ TakenOver[d] \in Connection /\ ~TakenOver[d].session
              /\ Len(TakenOver[d].wire) <= 3
              /\ d = sock => TakenOver[d].wire \in {<<>>, conns[d].wire}
    BY TakeOver
  <2>2. v \in Connection /\ v.wire = <<>> /\ Len(<<>>) = 0
    <3>1. <<>> \in Seq(Messages)
      OBVIOUS
    <3> QED BY <3>1, <2>1 DEF Connection
  <2>3. /\ conns[c].wire = <<"connect">>
        /\ conns' = [TakenOver EXCEPT ![c].wire = <<>>, ![c].session = TRUE]
    BY <1>9 DEF BrokerAccepts
  <2>4. conns' = [TakenOver EXCEPT ![c] = v]
    BY <2>3, <2>1
  <2> HIDE DEF v
  <2>5. /\ conns' \in Seq(Connection) /\ Len(conns') = Len(conns) /\ DOMAIN conns' = DOMAIN conns
        /\ conns'[c] = v /\ \A d \in DOMAIN conns : d # c => conns'[d] = TakenOver[d]
    BY <2>1, <2>2, <2>4, ReplaceOne
  <2>6. retained' \in {"none", "online", "offline"}
    BY <1>9 DEF BrokerAccepts, WillSpeaks, Wires
  <2>7. ASSUME NEW d \in DOMAIN conns'
        PROVE  /\ conns'[d].session => d = c
               /\ Len(conns'[d].wire) <= 3
               /\ d = sock' => Open(conns'[d].wire, conns'[d].session, retained', Farewell')
    <3>1. CASE d = c
      <4>1. conns'[d].wire = <<>> /\ Len(conns'[d].wire) <= 3
        BY <3>1, <2>2, <2>5
      <4>2. d = sock' => Farewell
        <5>1. SUFFICES ASSUME c = sock PROVE Farewell
          BY <3>1, <1>1
        <5>2. Open(conns[c].wire, conns[c].session, retained, Farewell)
          BY <5>1 DEF Lines
        <5>3. conns[c].wire # <<"online">> /\ conns[c].wire # <<>>
          BY <2>3
        <5> QED BY <5>2, <5>3 DEF Open
      <4>3. Farewell' => Open(<<>>, conns'[d].session, retained', Farewell')
        BY <2>2 DEF Open
      <4> QED BY <3>1, <4>1, <4>2, <4>3, <1>3
    <3>2. CASE d # c
      <4>1. /\ conns'[d] = TakenOver[d] /\ d \in DOMAIN conns
            /\ ~conns'[d].session /\ Len(conns'[d].wire) <= 3
        BY <3>2, <2>1, <2>5
      <4>2. ASSUME d = sock
            PROVE  Open(conns'[d].wire, conns'[d].session, retained', Farewell)
        <5>1. Open(conns[d].wire, conns[d].session, retained, Farewell)
          BY <4>1, <4>2 DEF Lines
        <5>2. conns'[d].wire = <<>> \/ conns'[d].wire = conns[d].wire
          BY <4>1, <4>2, <2>1
        <5>3. Len(<<>>) = 0
          OBVIOUS
        <5> QED BY <5>1, <5>2, <5>3, <4>1 DEF Open
      <4> QED BY <3>2, <4>1, <4>2, <1>1, <1>3
    <3> QED BY <3>1, <3>2
  <2>8. Lines'
    BY <2>7 DEF Lines
  <2> QED BY <2>5, <2>6, <2>8, <1>4
<1> QED BY <1>6, <1>7, <1>8, <1>9 DEF Broker
-----------------------------------------------------------------------------
(* The theorems                                                            *)

LEMMA Start0 == ASSUME VideoAssumption PROVE Init => IInv
<1> SUFFICES ASSUME Init PROVE IInv
  OBVIOUS
<1> USE DEF Init, VideoInit
<1>1. Wires
  BY DEF Wires, NoCall
<1>2. Places /\ Counts
  BY VideoAssumption DEF Places, Counts, VideoAssumption
<1>4. Flags /\ Owned
  BY Zenon DEF Flags, Owned
<1>3. Calling /\ Lines
  BY DEF Calling, NoCall, Lines
<1> QED BY <1>1, <1>2, <1>3, <1>4 DEF IInv

THEOREM Invariance == Spec => []IInv
<1>1. Init => IInv
  BY Start0, VideoAssumption
<1>2. IInv /\ [Next]_vars => IInv'
  <2> SUFFICES ASSUME IInv, [Next]_vars PROVE IInv'
    OBVIOUS
  <2>1. CASE Next
    BY <2>1, VideoAssumption, VideoSteps, WorkerSteps, MainSteps, PublisherSteps, BrokerSteps
    DEF Next
  <2>2. CASE UNCHANGED vars
    <3>1. Flags' /\ Places' /\ Counts' /\ Owned'
      BY <2>2, NothingElse DEF vars
    <3>2. Lines' /\ Wires' /\ Calling'
      BY <2>2, LinesKept DEF vars, procVars, mqttVars, IInv, Calling, Farewell
    <3> QED BY <3>1, <3>2 DEF IInv
  <2> QED BY <2>1, <2>2
<1> QED BY <1>1, <1>2, PTL DEF Spec

\* The states of the service are of their types, and no connection has ever more than
\* its birth message, the farewell and the DISCONNECT to say (publisher.py, app.py main).
THEOREM TypeCorrect == Spec => []TypeOK
<1>1. IInv => TypeOK
  <2> SUFFICES ASSUME IInv PROVE TypeOK
    OBVIOUS
  <2>1. outages <= MaxOutages
    BY VideoAssumption DEF IInv, Counts, VideoAssumption
  <2> QED BY <2>1 DEF IInv, TypeOK, VideoTypeOK, Wires, Flags, Places, Counts, Lines
<1> QED BY <1>1, Invariance, PTL

\* Whatever way a worker ends or changes its source, and however long capture calls
\* last, no capture and no pipeline stays open without a thread that will close it
\* (video.py close, _switch and the end of the reader loop).
THEOREM NothingStaysOpen == Spec => []NothingLeftOpen
<1>1. IInv => NothingLeftOpen
  BY Zenon DEF IInv, NothingLeftOpen, Owned
<1> QED BY <1>1, Invariance, PTL

\* While main runs and the broker has heard its connection out, the retained status is
\* online: no will of an earlier session speaks after the birth message of the present
\* one (publisher.py _connect; the safety half of StatusFollows).
THEOREM HonestStatus == Spec => []StatusHonest
<1>1. IInv => StatusHonest
  <2> SUFFICES ASSUME IInv, main \in {"watch", "join"}, sock # 0,
                      conns[sock].session, conns[sock].wire = <<>>
               PROVE  retained = "online"
    BY DEF StatusHonest
  <2>1. sock \in DOMAIN conns /\ ~Farewell
    BY LenProperties DEF IInv, Wires, Farewell
  <2>2. Open(conns[sock].wire, conns[sock].session, retained, Farewell)
    BY <2>1 DEF IInv, Lines
  <2> QED BY <2>1, <2>2 DEF Open
<1> QED BY <1>1, Invariance, PTL
=============================================================================
