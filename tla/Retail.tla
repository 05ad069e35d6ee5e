------------------------------- MODULE Retail -------------------------------
(***************************************************************************)
(* One camera of the retail service: StreamWorker._run of                  *)
(* core-py/retail_core/app.py (and outProbe of backends/hailo/main.cpp)    *)
(* from a frame of the source to the batched message, with the persons who *)
(* walk in front of the camera as its environment.                         *)
(***************************************************************************)
EXTENDS PersonTracker

CONSTANTS Scenes,     \* what happens in front of the camera, see RetailAssumption
          Window,     \* window_duration
          Smoothing,  \* SMOOTHING_WINDOW
          Sample,     \* time between two occupancy samples
          Interval    \* 1 / publish_hz

\* A scene has the entry line of the operator, the cells where other things
\* than the person are detected, how long the source may give no frame, whether
\* the person may be hidden, and a bound on the frames.
ASSUME RetailAssumption ==
    /\ {Window, Smoothing, Sample, Interval} \subseteq Nat \ {0}
    /\ \A s \in Scenes :
          /\ s.line.at \in -1 .. 2 * Width /\ s.line.inwards \in BOOLEAN
          /\ s.others \subseteq SUBSET Cells /\ s.pauses \subseteq Nat \ {0}
          /\ s.hides \in BOOLEAN /\ s.frames \in Nat

VARIABLES
    scene,    \* the scene, with the entry line
    where,    \* cell of a person, Out when not in the picture
    now,      \* time of the last frame
    frame_id, \* frames so far
    tracks,   \* id -> track
    next_id,  \* _next_id
    entries, exits, \* entry_count, exit_count
    zone,     \* ZoneMetrics
    due,      \* PublishCycle._next, 0 for None
    message,  \* the batched message of this frame, if one is due
    removed,  \* every track record so far
    owed,     \* line crossings that the removed tracks were worth
    born,     \* where the tracks of now were first detected
    walked,   \* when they last had no stationary frame
    visits,   \* times that the person was detected after coming in
    hidden,   \* frames without the person since then, Unseen before it
    sent,     \* the times of the messages so far
    clean     \* nobody else, no outage, one frame hidden in a visit at most

serviceVars == <<scene, now, frame_id, tracks, next_id, entries, exits, zone, due, message>>
ghosts == <<removed, owed, born, walked, visits, hidden, sent, clean>>
vars == <<where, serviceVars, ghosts>>

line == scene.line

Out == -1
Unseen == -1
NoMessage == [at |-> 0]

RecordsOf(gone, at) ==
    LET ids == SetToSortSeq(DOMAIN gone, <)
    IN  [i \in DOMAIN ids |-> TrackRecord(gone[ids[i]], at)]

---------------------------------------------------------------------------
(* Rolling metrics.                                                        *)

\* Mutant: a record that leaves the window leaves its engagement in the sum.
ForgetsEngagement(z, t) ==
    LET old == SelectSeq(z.removed, LAMBDA r : r.at < t - Window)
    IN  [z EXCEPT !.samples = SelectSeq(@, LAMBDA s : s.at >= t - Window),
                  !.removed = SelectSeq(@, LAMBDA r : r.at >= t - Window),
                  !.dwell = @ - FoldLeft(LAMBDA s, r : s + r.dwell, 0, old),
                  !.n = @ - Len(old)]

\* Samples and records are in the order of time, so that the old ones lead.
Pruned(z, t) ==
    LET old == SelectSeq(z.removed, LAMBDA r : r.at < t - Window)
    IN  [z EXCEPT !.samples = SelectSeq(@, LAMBDA s : s.at >= t - Window),
                  !.removed = SelectSeq(@, LAMBDA r : r.at >= t - Window),
                  !.dwell = @ - FoldLeft(LAMBDA s, r : s + r.dwell, 0, old),
                  !.engagement = @ - FoldLeft(LAMBDA s, r : s + r.engagement, 0, old),
                  !.n = @ - Len(old)]

\* The median of the last raw counts.
Smoothed(history) ==
    LET sorted == SortSeq(history, LAMBDA x, y : x < y)
    IN  sorted[Len(history) \div 2 + 1]

UpdateZone(z, count, in, out, t) ==
    LET history == LET h == Append(z.history, count.total)
                   IN  IF Len(h) > Smoothing THEN Tail(h) ELSE h
        smoothed == Smoothed(history)
        sampled == t - z.lastSample >= Sample
    IN  Pruned([z EXCEPT !.counts = count, !.entry = in, !.exit = out,
                         !.history = history, !.smoothed = smoothed,
                         !.samples = IF sampled THEN Append(@, [at |-> t, n |-> smoothed]) ELSE @,
                         !.lastSample = IF sampled THEN t ELSE @], t)

OnTrackRemoved(z, r) ==
    [z EXCEPT !.removed = Append(@, r), !.dwell = @ + r.dwell,
              !.engagement = @ + r.engagement, !.n = @ + 1]

\* The averages are left as sum and number.
Snapshot(z) ==
    [occupancy |-> z.smoothed, counts |-> z.counts,
     peak |-> Max({z.samples[i].n : i \in DOMAIN z.samples} \cup {0}),
     dwell |-> z.dwell, engagement |-> z.engagement, n |-> z.n,
     entry |-> z.entry, exit |-> z.exit]

---------------------------------------------------------------------------
(* A person: steps of at most one cell, in and out at the edges, hidden    *)
(* from the detector now and then; boxes in one cell are one detection.    *)

Steps(x) ==
    IF x = Out THEN {Out, 0, Width - 1}
    ELSE (({x - 1, x, x + 1} \cap Cells) \cup (IF x \in {0, Width - 1} THEN {Out} ELSE {}))

Detections(cells) == {s \in [1 .. Cardinality(cells) -> cells] : Range(s) = cells}

---------------------------------------------------------------------------
(* tracker.update: the matched tracks, the lost ones, the new ones.        *)

Seen(t, cell, at, dt) ==
    Dwell([t EXCEPT !.v = Velocity(@, cell - t.x, dt), !.x = cell,
                    !.frames = @ + 1, !.lost = 0], at)

\* Mutant: one frame late.
ExpiresLate(t) == t.lost > 1 + (IF EdgeLoss(t) THEN MaxLostEdge ELSE MaxLostCenter)

Expired(t) == t.lost > (IF EdgeLoss(t) THEN MaxLostEdge ELSE MaxLostCenter)

\* Mutant: the direction of the crossing is not looked at.
OnlyEntries(old, new) ==
    LET crossed == {id \in DOMAIN old : Crossing(line, old[id].x, new[id].x) # 0}
    IN  [entry |-> Cardinality(crossed), exit |-> 0]

LineCounts(old, new) ==
    LET crossed == {id \in DOMAIN old : Crossing(line, old[id].x, new[id].x) # 0}
        inward == {id \in crossed : (Crossing(line, old[id].x, new[id].x) > 0) = line.inwards}
    IN  [entry |-> Cardinality(inward), exit |-> Cardinality(crossed \ inward)]

ExitCounted(t) == line = NoLine /\ t.frames >= MinCountFrames /\ NearEdge(t.x)

\* The tracks of now, those that end, the new ones' number, the counts.
Settled(matches, aged, dets) ==
    LET gone == {id \in DOMAIN aged \ DOMAIN matches : Expired(aged[id])}
        fresh == SetToSortSeq(DOMAIN dets \ Range(matches), <)
        lines == IF line = NoLine THEN [entry |-> Len(fresh), exit |-> 0]
                 ELSE LineCounts(Restrict(tracks, DOMAIN matches), aged)
    IN  [tracks |-> Restrict(aged, DOMAIN aged \ gone)
                      @@ [id \in next_id .. next_id + Len(fresh) - 1 |->
                            NewTrack(dets[fresh[id - next_id + 1]])],
         fresh |-> Len(fresh),
         entries |-> entries + lines.entry,
         exits |-> exits + lines.exit + Cardinality({id \in gone : ExitCounted(aged[id])}),
         gone |-> Restrict(aged, gone)]

Aged(matches, dets, at) ==
    [id \in DOMAIN tracks |->
       IF id \in DOMAIN matches THEN Seen(tracks[id], dets[matches[id]], at, at - now)
       ELSE [tracks[id] EXCEPT !.lost = @ + 1]]

Update(dets, at) ==
    LET Moved(matches) == Settled(matches, Aged(matches, dets, at), dets)
    IN  Moved(Match(tracks, dets))

\* PublishCycle.due: the first frame begins the cycles, missed ones are skipped.
Planned(at) == IF due = 0 THEN at ELSE due

\* Mutant: the cycles that were missed are caught up with.
CatchesUp(planned, at) == planned + Interval

NextCycle(planned, at) ==
    IF planned + Interval < at THEN at + Interval ELSE planned + Interval

Batch(u, z, at) ==
    [at |-> at, zone |-> Snapshot(z),
     persons |-> [id \in {i \in DOMAIN u.tracks : u.tracks[i].lost = 0} |->
                    [cx |-> u.tracks[id].x, state |-> u.tracks[id].state,
                     dwell |-> u.tracks[id].dwell]]]

---------------------------------------------------------------------------
(* What the properties remember.                                           *)

Worth(from, to) ==
    LET Inside(x) == IF Side(line, x) = line.inwards THEN 1 ELSE 0
    IN  IF line = NoLine THEN 0 ELSE Inside(to) - Inside(from)

Remember(u, cell, visible, others, at) ==
    LET came == visible /\ hidden = Unseen
    IN  /\ removed' = removed \o RecordsOf(u.gone, at)
        /\ owed' = owed + MapThenSumSet(LAMBDA id : Worth(born[id], u.gone[id].x), DOMAIN u.gone)
        /\ born' = [id \in DOMAIN u.tracks |->
                      IF id \in DOMAIN born THEN born[id] ELSE u.tracks[id].x]
        /\ walked' = [id \in DOMAIN u.tracks |->
                        IF u.tracks[id].still = 0 THEN at ELSE walked[id]]
        /\ visits' = IF came THEN visits + 1 ELSE visits
        /\ hidden' = IF cell = Out THEN Unseen ELSE IF came THEN 0
                     ELSE IF visible \/ hidden = Unseen THEN hidden ELSE hidden + 1
        /\ sent' = IF message' = NoMessage THEN sent ELSE Append(sent, at)
        /\ clean' = /\ clean /\ at - now = 1 /\ others = {} /\ hidden' <= 1
                    /\ came => DOMAIN tracks = {}

---------------------------------------------------------------------------
Init ==
    /\ scene \in Scenes
    /\ where = Out /\ now = Sample /\ frame_id = 0
    /\ tracks = <<>> /\ next_id = 0 /\ entries = 0 /\ exits = 0
    /\ zone = [counts |-> StateCount(<<>>), entry |-> 0, exit |-> 0, history |-> <<>>,
               smoothed |-> 0, samples |-> <<>>, lastSample |-> 0, removed |-> <<>>,
               dwell |-> 0, engagement |-> 0, n |-> 0]
    /\ due = 0 /\ message = NoMessage
    /\ removed = <<>> /\ owed = 0 /\ born = <<>> /\ walked = <<>>
    /\ visits = 0 /\ hidden = Unseen /\ sent = <<>> /\ clean = TRUE

\* One frame, from the tracker's result u to the message if one is due.
Frame(u, at) ==
    LET Heard == FoldLeft(OnTrackRemoved, zone, RecordsOf(u.gone, at))
    IN  /\ now' = at /\ frame_id' = frame_id + 1 /\ UNCHANGED scene
        /\ tracks' = u.tracks /\ next_id' = next_id + u.fresh
        /\ entries' = u.entries /\ exits' = u.exits
        /\ zone' = UpdateZone(Heard, StateCount(u.tracks), u.entries, u.exits, at)
        /\ IF at < Planned(at) THEN message' = NoMessage /\ UNCHANGED due
           ELSE due' = NextCycle(Planned(at), at) /\ message' = Batch(u, zone', at)

\* The source may once give nothing for a while.
Next ==
    /\ frame_id < scene.frames
    /\ \E cell \in Steps(where), visible \in BOOLEAN, others \in scene.others,
         pause \in scene.pauses :
          LET at == now + pause
              cells == others \cup (IF visible THEN {cell} ELSE {})
          IN  /\ visible => cell # Out
              /\ ~visible => cell = Out \/ scene.hides
              /\ pause # 1 => now = Sample + frame_id
              /\ \E u \in {Update(dets, at) : dets \in Detections(cells)} :
                    Frame(u, at) /\ Remember(u, cell, visible, others, at)
              /\ where' = cell

Spec == Init /\ [][Next]_vars

---------------------------------------------------------------------------
(* Types: the tracks and the metrics, and the window of what they keep.      *)
TypeOK ==
    /\ \A id \in DOMAIN tracks :
          LET t == tracks[id]
          IN  /\ id < next_id /\ t.x \in Cells /\ Abs(t.v) <= 10 * Width
              /\ t.state \in {"transient", "dwelling", "engaged", "assistance"}
              /\ {t.start, t.engaged} \subseteq 0 .. now /\ t.dwell \in 0 .. now
              /\ t.frames \in 1 .. frame_id /\ t.lost \in 0 .. MaxLostCenter
    /\ Len(zone.history) <= Smoothing
    /\ \A i \in DOMAIN zone.samples : zone.samples[i].at \in now - Window .. now

(* The averages that are published are those of the tracks removed in the    *)
(* last window, and of no others (zone_metrics: running sums over a deque).  *)
AveragesOfTheWindow ==
    LET recent == SelectSeq(removed, LAMBDA r : r.at >= now - Window)
    IN  /\ zone.n = Len(recent)
        /\ zone.dwell = FoldLeft(LAMBDA s, r : s + r.dwell, 0, recent)
        /\ zone.engagement = FoldLeft(LAMBDA s, r : s + r.engagement, 0, recent)

(* With an entry line, entries less exits are the tracks that have come      *)
(* inside less those that have left, however the identities were matched     *)
(* (person_tracker.cpp update: both counters are driven by crossings).       *)
FlowConserved ==
    line # NoLine =>
        entries - exits = owed + MapThenSumSet(LAMBDA id : Worth(born[id], tracks[id].x), DOMAIN tracks)

(* Without a line, a person who is alone and hidden for one frame at most is *)
(* one entry, wherever that person goes (two-pass matching, edge timeout).   *)
OneVisitOneEntry == (line = NoLine /\ clean) => entries = visits

(* Messages follow each other at publish_hz: a pause of the source is not     *)
(* made up for by a burst, and no frame an interval after a message goes     *)
(* without one (PublishCycle.due).                                           *)
PublishRate ==
    /\ \A i, j \in DOMAIN sent : i < j => sent[j] - sent[i] >= (j - i - 1) * Interval
    /\ frame_id > 0 => sent # <<>> /\ now - Last(sent) < Interval

(* A dwell time counts from after the person last really walked              *)
(* (update_dwell_state: the start is forgotten with the stationary frames).  *)
DwellSinceWalking ==
    \A id \in DOMAIN tracks :
        tracks[id].state # "transient" => tracks[id].start >= walked[id]
=============================================================================
