----------------------------- MODULE Analytics -----------------------------
(***************************************************************************)
(* What ContextPool::process (core-cpp/vb/src/pool.cpp) does with the      *)
(* detections of a frame: the tracker, the analyzer chain, the removed     *)
(* tracks, and configure_analyzer between frames.  The analyzers of a      *)
(* chain see the same tracks and nothing of each other, so that a chain of *)
(* one analyzer, chosen at the start, stands for any chain.                *)
(***************************************************************************)
EXTENDS Analyzers

CONSTANTS Kinds,   \* analyzers that may be the one of the chain
          Configs, \* kind -> configurations offered, right or wrong
          Scenes,  \* kind -> detections of a frame: sequences of [at, cls]
          Gaps,    \* ticks between two frames
          MaxTime, \* kind -> bound on the clock
          MaxCfg   \* bound on configure_analyzer requests

ASSUME AnalyticsAssumption ==
    /\ \A kind \in Kinds : \E c \in Configs[kind] : CfgOk(kind, c)
    /\ Gaps \subseteq Nat \ {0} /\ \A kind \in Kinds : MaxTime[kind] \in Nat
    /\ MaxCfg \in Nat

VARIABLES
    kind,     \* the analyzer of the chain
    tracking, \* track_enabled
    cfg,      \* its configuration
    T,        \* the tracker
    a,        \* the analyzer and its events of the last frame
    now,      \* t_mono_s of the last frame
    ids,      \* track ids written into the last frame's detections
    seen,     \* the last frame's detections
    cfgs,     \* configure_analyzer requests so far
    open,     \* what a reader of the events believes to go on
    stayed,   \* stays whose zone_dwell the reader has got
    odd,      \* kinds of events the reader could make no sense of
    path,     \* line_cross: what was observed of a track at a line
    gone,     \* line_cross: the same of removed tracks that were counted
    steady    \* count_threshold: since when the raw value of a zone holds

readerVars == <<open, stayed, odd, path, gone, steady>>
vars == <<kind, tracking, cfg, T, a, now, ids, seen, cfgs, readerVars>>

TrackIds(t) == {t.tracks[i].id : i \in DOMAIN t.tracks}

Untracked(dets, t) ==
    [d \in DOMAIN dets |-> [NewTrack(0, dets[d], t) EXCEPT !.id = 0]]

---------------------------------------------------------------------------
(* The reader of the events.                                               *)

Begins == {"zone_enter", "dwell_start", "wrong", "over", "under", "out"}
Ends   == {"zone_exit", "dwell_end", "ok", "normal", "in"}

\* Believed state, stays that had their zone_dwell, oddities; threshold
\* events may go from over to under without an end.
Read(r, e) ==
    [open   |-> IF e.type \in Begins THEN r.open \cup {e.key}
                ELSE IF e.type \in Ends THEN r.open \ {e.key} ELSE r.open,
     stayed |-> IF e.type = "zone_dwell" THEN r.stayed \cup {e.key}
                ELSE IF e.type \in Begins \cup Ends THEN r.stayed \ {e.key} ELSE r.stayed,
     odd    |-> r.odd \cup
                {x \in {"begin", "end", "dwell"} :
                   \/ x = "begin" /\ e.type \in {"zone_enter", "dwell_start", "wrong", "out"}
                                  /\ e.key \in r.open
                   \/ x = "end" /\ e.type \in Ends /\ e.key \notin r.open
                   \/ x = "dwell" /\ \/ e.type = "zone_dwell" /\ e.key \in r.stayed
                                     \/ e.type \in {"zone_dwell", "dwell_update"}
                                        /\ e.key \notin r.open}]

Close(x, g, t) == Dist(x, g.at) <= cfg.rebornDist /\ t - g.t <= cfg.rebornWindow

Newcomers(alive, l) ==
    {tr \in ToSet(alive) : ClassOk(cfg, tr) /\ <<tr.id, l>> \notin DOMAIN path}

\* At its first frame a track continues the only removed one it can continue,
\* unless another newcomer can continue that one.
Began(l, x, alive, t) ==
    LET near == {g \in gone : g.line = l /\ Close(x, g, t)}
        Sure(g) == /\ near = {g}
                   /\ Cardinality({tr \in Newcomers(alive, l) :
                                      Close(Predicted(tr, t), g, t)}) = 1
    IN IF near = {} THEN [dir |-> 0, dirs |-> {}, sides |-> {}, at |-> x]
       ELSE IF \E g \in near : Sure(g)
       THEN LET g == CHOOSE g \in near : TRUE
            IN [dir |-> g.dir, dirs |-> {}, sides |-> g.sides, at |-> x]
       ELSE [dir |-> 0, dirs |-> {}, sides |-> {-1, 1}, at |-> x]

Observed(alive, t) ==
    LET keys == {<<alive[i].id, l>> : i \in {j \in DOMAIN alive : ClassOk(cfg, alive[j])},
                                      l \in DOMAIN cfg.lines}
        X(k) == Predicted(alive[CHOOSE i \in DOMAIN alive : alive[i].id = k[1]], t)
        Old(k) == IF k \in DOMAIN path THEN path[k] ELSE Began(k[2], X(k), alive, t)
    IN [k \in keys |-> [Old(k) EXCEPT
            !.at = X(k), !.sides = @ \cup ({Side(cfg.lines[k[2]], X(k))} \ {0})]] @@ path

Direction(e) == IF e.type = "forward" THEN 1 ELSE -1

\* Two crossings in a row in one direction; a direction that the track had
\* before; a crossing from a side on which it never was.
OddCrossings(seenPath, events) ==
    {x \in {"again", "repeat", "unseen"} : \E n \in DOMAIN events :
        LET e == events[n] p == seenPath[e.key] IN
        \/ x = "again" /\ p.dir = Direction(e)
        \/ x = "repeat" /\ Direction(e) \in p.dirs
        \/ x = "unseen" /\ ~({-1, 1} \subseteq p.sides
                             /\ Side(cfg.lines[e.key[2]], p.at) = -Direction(e))}

WithCrossings(seenPath, events) ==
    LET Of(k) == {Direction(events[n]) : n \in {m \in DOMAIN events : events[m].key = k}}
    IN [k \in DOMAIN seenPath |->
          [seenPath[k] EXCEPT !.dirs = @ \cup Of(k),
                              !.dir = IF Of(k) = {} THEN @ ELSE CHOOSE d \in Of(k) : TRUE]]

\* Tracks that inherit take the memory with them.
Taken(alive, t) ==
    {g \in gone : \E tr \in Newcomers(alive, g.line) : Close(Predicted(tr, t), g, t)}

ReadCrossings(alive, events, removed, t) ==
    \E observed \in {Observed(alive, t)} : \E all \in {WithCrossings(observed, events)} :
       LET left == {k \in DOMAIN all : k[1] \in ToSet(removed)}
       IN /\ odd' = odd \cup OddCrossings(observed, events)
          /\ path' = Restrict(all, DOMAIN all \ left)
          /\ gone' = {g \in gone \ Taken(alive, t) : t - g.t < cfg.rebornWindow} \cup
                     {[line |-> k[2], t |-> t, at |-> all[k].at, dir |-> all[k].dir,
                       sides |-> all[k].sides] : k \in {j \in left : all[j].dir # 0}}
          /\ UNCHANGED <<open, stayed>>

ReadIntervals(events) ==
    LET r == FoldLeft(Read, [open |-> open, stayed |-> stayed, odd |-> odd], events)
    IN open' = r.open /\ stayed' = r.stayed /\ odd' = r.odd /\ UNCHANGED <<path, gone>>

ReadCounts(alive, t) ==
    steady' = LET zones == EffectiveZones(cfg)
                  Since(zone) ==
                      LET raw == RawCount(cfg, alive, zone)
                      IN IF zone.id \in DOMAIN steady /\ steady[zone.id].raw = raw
                         THEN steady[zone.id] ELSE [raw |-> raw, t |-> t]
              IN [id \in {zones[z].id : z \in DOMAIN zones} |->
                    Since(zones[CHOOSE z \in DOMAIN zones : zones[z].id = id])]

---------------------------------------------------------------------------

Init ==
    /\ kind \in Kinds
    /\ tracking \in IF NeedsTracks(kind) THEN {TRUE} ELSE BOOLEAN
    /\ cfg \in {c \in Configs[kind] : CfgOk(kind, c)}
    /\ T = EmptyTracker
    /\ a = Fresh(kind, cfg)
    /\ now = 0
    /\ ids = <<>> /\ seen = <<>>
    /\ cfgs = 0
    /\ open = {} /\ stayed = {} /\ odd = {} /\ path = <<>> /\ gone = {} /\ steady = <<>>

Tracked(dets, t, swift) ==
    IF tracking THEN Update(T, dets, t, swift)
    ELSE [tracker |-> T, removed |-> <<>>, ids |-> [d \in DOMAIN dets |-> 0]]

\* The analyzer on the tracks of the frame, then on those that were removed.
Analysed(alive, removed, t) ==
    FoldLeft(LAMBDA b, id : OnTrackRemoved(kind, cfg, b, id, t),
             OnFrame(kind, cfg, [a EXCEPT !.out = <<>>], alive, t), removed)

\* The pool has inferred a frame.
Process(dets, gap, swift) ==
    LET t == now + gap
    IN /\ t <= MaxTime[kind]
       /\ now' = t
       /\ \E u \in {Tracked(dets, t, swift)} :
             \E alive \in {IF tracking THEN Alive(u.tracker.tracks) ELSE Untracked(dets, t)} :
                /\ T' = u.tracker
                /\ ids' = u.ids
                /\ seen' = dets
                /\ a' = Analysed(alive, u.removed, t)
                /\ IF kind = "line_cross" THEN ReadCrossings(alive, a'.out, u.removed, t)
                   ELSE ReadIntervals(a'.out)
                /\ IF kind = "count_threshold" THEN ReadCounts(alive, t) ELSE UNCHANGED steady
       /\ UNCHANGED <<kind, tracking, cfg, cfgs>>

\* configure_analyzer: a configuration that is refused changes nothing.
Configure(c) ==
    /\ cfgs < MaxCfg
    /\ cfgs' = cfgs + 1
    /\ IF CfgOk(kind, c)
       THEN /\ cfg' = c
            /\ a' = Configured(kind, cfg, c, a)
            /\ open' = open \cap DOMAIN Configured(kind, cfg, c, a).st
            /\ stayed' = {} /\ path' = <<>> /\ gone' = {}
            /\ steady' = RestrictDomain(steady,
                             LAMBDA id : \E y \in DOMAIN cfg.zones, z \in DOMAIN c.zones :
                                 cfg.zones[y] = c.zones[z] /\ c.zones[z].id = id)
       ELSE UNCHANGED <<cfg, a, open, stayed, path, gone, steady>>
    /\ UNCHANGED <<kind, tracking, T, now, ids, seen, odd>>

ProcessAny == \E dets \in Scenes[kind], gap \in Gaps, swift \in BOOLEAN : Process(dets, gap, swift)
ConfigureAny == \E c \in Configs[kind] : Configure(c)

Next == ProcessAny \/ ConfigureAny

Spec == Init /\ [][Next]_vars

---------------------------------------------------------------------------

\* Every detection of a tracked frame carries the id of a track that stands
\* there, no two carry the same, and ids grow in the order of creation
\* (Tracker::update writes track_id into the detections and into its list).
IdentitiesSound ==
    tracking =>
      /\ \A i, j \in DOMAIN T.tracks : i < j => T.tracks[i].id < T.tracks[j].id
      /\ \A i \in DOMAIN T.tracks : T.tracks[i].id < T.next
      /\ \A d, e \in DOMAIN ids : d # e => ids[d] # ids[e]
      /\ \A d \in DOMAIN ids : \E i \in DOMAIN T.tracks :
            T.tracks[i].id = ids[d] /\ T.tracks[i].at = seen[d].at /\ T.tracks[i].misses = 0

\* Types of the tracker, of the analyzer's state and of the reader's; the ids.
TypeOK ==
    /\ CfgOk(kind, cfg) /\ IdentitiesSound
    /\ T.next \in Nat \ {0}
    /\ \A i \in DOMAIN T.tracks :
          T.tracks[i].hits \in Nat \ {0} /\ T.tracks[i].misses \in 0..MaxMisses
    /\ ids \in Seq(Nat) /\ Len(ids) = Len(seen)
    /\ odd \subseteq {"begin", "end", "dwell", "again", "repeat", "unseen"}
    /\ now \in 0..MaxTime[kind] /\ cfgs \in 0..MaxCfg

\* A track that is in sight and alone in its reach keeps its identity while
\* it is detected where it stands: no other detection and no coasting track
\* takes it over, and an id that was given up never comes back.
IdentityKept ==
    [][/\ T'.next >= T.next
       /\ TrackIds(T') \ TrackIds(T) \subseteq T.next .. T'.next - 1
       /\ \A i \in DOMAIN T.tracks, d \in DOMAIN seen' :
            LET tr == T.tracks[i] IN
            (/\ now' > now /\ tracking
             /\ tr.misses = 0 /\ seen'[d] = [at |-> tr.at, cls |-> tr.cls]
             /\ \A j \in DOMAIN T.tracks \ {i} :
                    Dist(Predicted(T.tracks[j], now'), tr.at) >= Overlap)
            => \E e \in DOMAIN seen' : ids'[e] = tr.id /\ seen'[e].at = tr.at]_vars

\* The events of zone, dwell, direction and pose_angle pair up: a stay, a
\* dwell, a wrong way begins once and ends once, with at most one zone_dwell
\* in a stay (step, on_track_removed and the debouncers).
IntervalsPaired == odd \cap {"begin", "end", "dwell"} = {}

\* A track that was removed leaves no stay, dwell or wrong way open
\* (on_track_removed is called for every removed id after the frame).
NothingLeftOpen ==
    kind \in {"zone", "dwell", "direction"} =>
      /\ \A k \in open : k[1] \in TrackIds(T)
      /\ \A k \in DOMAIN a.st : k[1] \in TrackIds(T)

\* Every begin has its one end, given in time or at the removal of the track.
IntervalsSound == IntervalsPaired /\ NothingLeftOpen

\* line_cross reports a crossing only of a track that was on both sides, and
\* never two in a row in one direction, not even when the track was lost and
\* a new one continued it (the inheritance from ls.lost).
CrossingsSound == odd \cap {"again", "unseen"} = {}

\* "the same direction is only counted once per track per line"
\* (line_cross.cpp:18): the code compares with the last counted direction
\* only, so that a track that goes back and forth is counted each time.
EachDirectionOnce == "repeat" \notin odd

\* count_threshold changes what it reports for a zone exactly when the raw
\* value of its counts was the same in every frame of the last hold_s
\* seconds, whatever was reconfigured meanwhile.
CountsHeld ==
    [][(kind = "count_threshold" /\ now' > now) =>
         \A id \in DOMAIN steady' :
            LET k == <<0, id>>
                s == steady'[id]
                new == a'.st[k].deb.state
                old == IF k \in DOMAIN a.st THEN a.st[k].deb.state ELSE "normal"
            IN /\ new # old => new = s.raw /\ now' - s.t >= cfg.hold
               /\ s.t < now' /\ now' - s.t >= cfg.hold => new = s.raw]_vars
=============================================================================
