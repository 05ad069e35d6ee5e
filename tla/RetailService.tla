--------------------------- MODULE RetailService ---------------------------
(***************************************************************************)
(* The retail service as a process: main and a StreamWorker of             *)
(* core-py/retail_core/app.py, the MqttPublisher they share                *)
(* (publisher.py), and of the broker what concerns the retained status:    *)
(* sessions, their wills, and the taking over of a session by the next     *)
(* connection with the same client id.  Analytics is in Retail; here a     *)
(* frame is published or not.                                              *)
(***************************************************************************)
EXTENDS VideoSource

CONSTANTS LateWorker, \* the worker may outlast main's join
          MaxBreaks,  \* bound on the connections that break or are given up
          MaxConns    \* bound on the connections

ASSUME ServiceAssumption ==
    LateWorker \in BOOLEAN /\ MaxBreaks \in Nat /\ MaxConns \in Nat

VARIABLES
    worker,   \* where the worker is
    error,    \* worker.error is set
    RUNNING,  \* the flag of app.py
    main,     \* where main is
    call,     \* the publisher call that holds the lock
    sock,     \* self.sock: a connection, 0 for None
    conns,    \* connections made so far
    retained  \* the retained message on the status topic

procVars == <<worker, error, RUNNING, main>>
mqttVars == <<call, sock, conns, retained>>
vars == <<videoVars, procVars, mqttVars>>

NoCall == [by |-> "nobody", what |-> "nothing", attempt |-> 0]

Init ==
    /\ VideoInit
    /\ worker = "none" /\ error = FALSE /\ RUNNING = TRUE /\ main = "connect"
    /\ call = NoCall /\ sock = 0 /\ conns = <<>> /\ retained = "none"

---------------------------------------------------------------------------
(* The broker.  A connection has what is on its way to the broker, whether *)
(* the client and the network still hold it, and whether it has a session; *)
(* the CONNECT of a connection that was given up may still be on its way.   *)

\* One given up has no network left.
MayBreak == Cardinality({d \in DOMAIN conns : ~conns[d].net}) < MaxBreaks

\* A connection that says no more is as good as broken.
Breaks(c) ==
    /\ conns[c].net /\ conns[c].session /\ (conns[c].client \/ conns[c].wire # <<>>)
    /\ MayBreak
    /\ conns' = [conns EXCEPT ![c].net = FALSE]
    /\ UNCHANGED <<videoVars, procVars, call, sock, retained>>

\* A status is retained; a DISCONNECT discards the will.
BrokerReads(c) ==
    /\ conns[c].session /\ conns[c].wire # <<>>
    /\ LET p == Head(conns[c].wire)
       IN  /\ conns' = [conns EXCEPT ![c].wire = Tail(@), ![c].session = p # "disconnect"]
           /\ retained' = IF p \in {"online", "offline"} THEN p ELSE retained
    /\ UNCHANGED <<videoVars, procVars, call, sock>>

\* It notices a connection that broke, or that was closed without DISCONNECT.
BrokerLoses(c) ==
    /\ conns[c].session
    /\ ~conns[c].net \/ (~conns[c].client /\ conns[c].wire = <<>>)
    /\ conns' = [conns EXCEPT ![c].session = FALSE, ![c].wire = <<>>]
    /\ retained' = "offline"
    /\ UNCHANGED <<videoVars, procVars, call, sock>>

\* A session with the same client id ends the one before.
TakenOver == [c \in DOMAIN conns |->
    IF conns[c].session THEN [conns[c] EXCEPT !.session = FALSE, !.wire = <<>>] ELSE conns[c]]

WillSpeaks == retained' = IF \E c \in DOMAIN conns : conns[c].session THEN "offline" ELSE retained

\* It reads the CONNECT of a connection that the client gave up.
BrokerAccepts(c) ==
    /\ conns[c].wire = <<"connect">> /\ WillSpeaks
    /\ conns' = [TakenOver EXCEPT ![c].wire = <<>>, ![c].session = TRUE]
    /\ UNCHANGED <<videoVars, procVars, call, sock>>

Broker == \E c \in DOMAIN conns :
    Breaks(c) \/ BrokerReads(c) \/ BrokerLoses(c) \/ BrokerAccepts(c)

---------------------------------------------------------------------------
(* MqttPublisher.                                                          *)

Begin(by, what) ==
    /\ call = NoCall /\ call' = [by |-> by, what |-> what, attempt |-> 0]
    /\ UNCHANGED <<sock, conns, retained>>

FirstWords == <<"online">>

\* _connect, with the CONNACK.
ConnectionMade ==
    /\ Len(conns) < MaxConns /\ WillSpeaks
    /\ conns' = Append(TakenOver, [wire |-> FirstWords, client |-> TRUE, net |-> TRUE, session |-> TRUE])
    /\ sock' = Len(conns) + 1

\* _connect without a CONNACK: the CONNECT may be out, the socket is dropped.
ConnectionFails ==
    /\ UNCHANGED <<sock, retained>>
    /\ \/ UNCHANGED conns
       \/ /\ Len(conns) < MaxConns /\ MayBreak
          /\ conns' = Append(conns, [wire |-> <<"connect">>, client |-> FALSE, net |-> FALSE, session |-> FALSE])

\* What is written to a connection that broke, or that the broker ended, is lost.
Alive(c) == conns[c].net /\ conns[c].session

Leaves(o) == IF o = "none" THEN UNCHANGED conns
             ELSE conns' = [conns EXCEPT ![sock].wire = IF Alive(sock) THEN Append(@, o) ELSE @]

CloseSocket == conns' = [conns EXCEPT ![sock].client = FALSE] /\ sock' = 0

\* The second failure is raised; who called catches it.
Retry ==
    call' = IF call.attempt = 0 /\ call.what \in {"result", "offline"}
            THEN [call EXCEPT !.attempt = 1] ELSE NoCall

Connect ==
    /\ call.what \in {"result", "offline", "connect"} /\ sock = 0
    /\ \/ ConnectionMade /\ call' = IF call.what = "connect" THEN NoCall ELSE call
       \/ Retry /\ ConnectionFails
    /\ UNCHANGED <<videoVars, procVars>>

\* Mutant: the stop leaves the status as it is.
NoFarewell(what) == "none"

Packet(what) == IF what = "offline" THEN "offline" ELSE "none"

\* sendall: on a connection that is not alive it succeeds or fails.
Send ==
    /\ call.what \in {"result", "offline"} /\ sock # 0
    /\ \/ Leaves(Packet(call.what)) /\ call' = NoCall /\ UNCHANGED sock
       \/ ~Alive(sock) /\ CloseSocket /\ Retry
    /\ UNCHANGED <<videoVars, procVars, retained>>

\* close(): DISCONNECT, if there is a connection.
Close ==
    /\ call.what = "close" /\ call' = NoCall
    /\ IF sock = 0 THEN UNCHANGED <<sock, conns>>
       ELSE /\ conns' = [conns EXCEPT ![sock].client = FALSE,
                           ![sock].wire = IF Alive(sock) THEN Append(@, "disconnect") ELSE @]
            /\ sock' = 0
    /\ UNCHANGED <<videoVars, procVars, retained>>

Publisher == Connect \/ Send \/ Close

---------------------------------------------------------------------------
(* The worker.                                                             *)

WorkerGoes(to) == worker' = to /\ UNCHANGED <<RUNNING, main>>

Loop ==
    /\ worker = "loop" /\ WorkerGoes(IF RUNNING THEN "read" ELSE "close")
    /\ UNCHANGED <<videoVars, error, mqttVars>>

Start == worker = "read" /\ PrimaryStart /\ UNCHANGED <<procVars, mqttVars>>

\* A frame may be due to be published; too many reads without one switch to
\* the fallback, or raise when there is nothing to switch to.
Read ==
    /\ worker = "read"
    /\ \E r \in {Got, Nothing, Raised} :
          /\ PrimaryRead(r) \/ FallbackRead(r)
          /\ IF Fails(r)
             THEN WorkerGoes(IF CanSwitch THEN "switch" ELSE "close") /\ error' = ~CanSwitch
             ELSE /\ UNCHANGED error
                  /\ WorkerGoes("loop") \/ (r = Got /\ WorkerGoes("publish"))
          /\ failures' = Count(r)
    /\ UNCHANGED <<camera, outages, active, cap, bad, mqttVars>>

WorkerPublish ==
    /\ \/ worker = "publish" /\ Begin("worker", "result") /\ WorkerGoes("publishing")
       \/ worker = "publishing" /\ call.by # "worker" /\ WorkerGoes("loop") /\ UNCHANGED mqttVars
    /\ UNCHANGED <<videoVars, error>>

\* close() of the primary, as part of a switch or at the end.
Stop ==
    /\ worker \in {"switch", "close"} /\ active = "primary" /\ running
    /\ running' = FALSE
    /\ UNCHANGED <<camera, outages, active, failures, reader, started, cap, bad, fresh, pipeline,
                   procVars, mqttVars>>

\* _switch: the primary is closed and the fallback takes over.
Switched ==
    /\ worker = "switch" /\ ~running /\ Joined
    /\ started' = FALSE /\ cap' = FALSE /\ active' = "fallback" /\ failures' = 0
    /\ WorkerGoes("loop")
    /\ UNCHANGED <<camera, outages, reader, running, bad, fresh, pipeline, error, mqttVars>>

\* FallbackVideoSource.close: the active source, then the fallback.
Closed ==
    /\ worker = "close" /\ WorkerGoes("ended") /\ pipeline' = FALSE
    /\ IF active = "primary" THEN ~running /\ Joined /\ started' = FALSE /\ cap' = FALSE
       ELSE UNCHANGED <<started, cap>>
    /\ UNCHANGED <<camera, outages, active, failures, reader, running, bad, fresh, error, mqttVars>>

Worker == Loop \/ Start \/ Read \/ WorkerPublish \/ Stop \/ Switched \/ Closed

---------------------------------------------------------------------------
(* main.                                                                   *)

MainGoes(to) ==
    /\ main' = to /\ worker' = IF main = "connecting" THEN "loop" ELSE worker
    /\ UNCHANGED <<videoVars, error>>

Signal == RUNNING /\ RUNNING' = FALSE /\ UNCHANGED <<videoVars, worker, error, main, mqttVars>>

\* Each of main's calls is begun, and waited for; the worker starts after the first.
Calls(what, waiting) == main = what /\ Begin("main", what) /\ MainGoes(waiting) /\ UNCHANGED RUNNING

Returned(waiting, to) ==
    main = waiting /\ call.by # "main" /\ MainGoes(to) /\ UNCHANGED <<RUNNING, mqttVars>>

Watch ==
    /\ main = "watch" /\ (~RUNNING \/ worker = "ended")
    /\ RUNNING' = FALSE /\ MainGoes("join") /\ UNCHANGED mqttVars

Join ==
    /\ main = "join" /\ (worker = "ended" \/ LateWorker)
    /\ MainGoes("offline") /\ UNCHANGED <<RUNNING, mqttVars>>

\* The end of the process closes its sockets and ends its threads.
Exit ==
    /\ main = "exit" /\ main' = "gone" /\ worker' = "ended" /\ reader' = "ended"
    /\ cap' = FALSE /\ pipeline' = FALSE /\ call' = NoCall /\ sock' = 0
    /\ conns' = [c \in DOMAIN conns |-> [conns[c] EXCEPT !.client = FALSE]]
    /\ UNCHANGED <<camera, outages, active, failures, started, running, bad, fresh, error,
                   RUNNING, retained>>

Main ==
    \/ Calls("connect", "connecting") \/ Returned("connecting", "watch")
    \/ Watch \/ Join
    \/ Calls("offline", "going") \/ Returned("going", "close")
    \/ Calls("close", "closing") \/ Returned("closing", "exit")
    \/ Exit

Next ==
    \/ main # "gone" /\ ((Reader /\ UNCHANGED <<procVars, mqttVars>>) \/ Worker \/ Publisher
                         \/ Signal \/ Main)
    \/ Camera /\ UNCHANGED <<procVars, mqttVars>>
    \/ Broker

Fairness ==
    /\ WF_vars(main # "gone" /\ Reader /\ UNCHANGED <<procVars, mqttVars>>)
    /\ WF_vars(main # "gone" /\ Worker) /\ WF_vars(main # "gone" /\ Publisher)
    /\ WF_vars(main # "gone" /\ Main)
    /\ \A c \in 1 .. MaxConns : WF_vars(c \in DOMAIN conns /\ (BrokerReads(c) \/ BrokerLoses(c)))

Spec == Init /\ [][Next]_vars /\ Fairness

---------------------------------------------------------------------------
(* Types.                                                                    *)
TypeOK ==
    /\ VideoTypeOK
    /\ worker \in {"none", "loop", "read", "publish", "publishing", "switch", "close", "ended"}
    /\ main \in {"connect", "connecting", "watch", "join", "offline", "going", "close",
                 "closing", "exit", "gone"}
    /\ {error, RUNNING} \subseteq BOOLEAN /\ retained \in {"none", "online", "offline"}
    /\ sock \in 0 .. Len(conns)
    /\ \A c \in DOMAIN conns : Len(conns[c].wire) <= 3

(* Whatever way a worker ends or changes its source, no capture and no       *)
(* pipeline stays open without a thread that will close it (video.py close,  *)
(* _switch, and the end of the reader loop).                                 *)
NothingLeftOpen ==
    /\ worker = "ended" => ~pipeline
    /\ (worker = "ended" \/ active = "fallback") /\ reader \in {"none", "ended"} => ~cap

(* While the service runs and the broker has heard all that its connection   *)
(* had to say, the retained status is online, whichever connection broke     *)
(* before (publisher.py _connect; the will of the session before).           *)
StatusHonest ==
    (/\ main \in {"watch", "join"} /\ sock # 0
     /\ conns[sock].session /\ conns[sock].wire = <<>>) => retained = "online"

(* After a stop or a failure of its worker, the status ends as offline, by   *)
(* publish_offline or by the will.                                           *)
OfflineInTheEnd ==
    (~RUNNING \/ error) ~> [](main = "gone" /\ retained # "online")

(* The retained status follows the service: online while it runs, offline    *)
(* after it, through the connections that break and are taken over.          *)
StatusFollows == []StatusHonest /\ OfflineInTheEnd

(* A dead camera never ends the worker (the docstring of OpenCVFFmpeg).      *)
SurvivesOutage == ~error
=============================================================================
