--------------------------- MODULE PersonTracker ---------------------------
(***************************************************************************)
(* The retail core (core-cpp/person_tracker.cpp, zone_metrics.cpp, and the *)
(* same logic in core-py/retail_core) as operators; Retail keeps the state.*)
(*                                                                         *)
(* Persons have boxes of one size and walk along one axis of the picture:  *)
(* a position is a cell, and the overlap of two boxes decreases with the   *)
(* distance of their centres.  Distances and velocities are in tenths of a *)
(* cell (per unit of time), and a tenth per unit is the 10 px/s of the     *)
(* speed thresholds.  A detection is its cell.                             *)
(***************************************************************************)
EXTENDS Integers, SequencesExt, FiniteSetsExt, Functions

CONSTANTS Width,          \* cells of the picture are 0 .. Width - 1
          Margin,         \* edge_margin, in cells
          Overlap,        \* boxes closer than this overlap by iou_threshold
          Reach,          \* dist_threshold
          Recent,         \* lost frames after which pass 2 gives up
          MaxLostCenter, MaxLostEdge,
          MinFrames,      \* dwell_min_frames
          DwellMin, Assistance, \* dwell_min_duration, dwell_assistance_threshold
          StableAt, DecaySlow, DecayFast, \* stationary_*
          MinCountFrames, \* min_frames_for_count
          CountZone       \* cells of the counting zone, {} when off

NoLine == [at |-> -1, inwards |-> TRUE]
Cells == 0 .. Width - 1

ASSUME PersonTrackerAssumption ==
    /\ {Width, Margin, Overlap, Reach, MaxLostCenter, MaxLostEdge} \subseteq Nat \ {0}
    /\ {MinFrames, DwellMin, StableAt, DecaySlow, DecayFast} \subseteq Nat \ {0}
    /\ {Recent, MinCountFrames} \subseteq Nat /\ Assistance > DwellMin
    /\ CountZone \subseteq Cells

Abs(n) == IF n < 0 THEN -n ELSE n
Truncated(n, d) == IF n < 0 THEN -((-n) \div d) ELSE n \div d
Least0(n) == IF n < 0 THEN 0 ELSE n

---------------------------------------------------------------------------
(* Where a track is lost: at the edge on its way out, or an occlusion.     *)

NearEdge(x) == x < Margin \/ x > Width - 1 - Margin

\* The outer 30 % of the picture, at more than 20 px/s.
MovingTowardEdge(t) ==
    \/ t.v < -2 /\ 10 * t.x < 3 * Width
    \/ t.v > 2 /\ 10 * (t.x + 1) > 7 * Width

EdgeLoss(t) == NearEdge(t.x) /\ MovingTowardEdge(t)

---------------------------------------------------------------------------
(* Matching.                                                               *)

\* In tenths of a cell; the velocity is taken per 1/15 s, which is one frame.
Predicted(t) == 10 * t.x + (IF t.lost > 0 THEN t.v * t.lost ELSE 0)

Distance(t, cell) == Abs(10 * cell - Predicted(t))

\* Longest tracked first, the smaller id first among equals.
Order(tracks) ==
    SetToSortSeq(DOMAIN tracks,
                 LAMBDA i, j : \/ tracks[i].frames > tracks[j].frames
                               \/ tracks[i].frames = tracks[j].frames /\ i < j)

\* Each track in turn takes the nearest detection that no other one has.
Claims(matches, ids, tracks, dets, radius) ==
    LET Take(m, id) ==
          LET D(d) == Distance(tracks[id], dets[d])
              free == {d \in DOMAIN dets \ Range(m) : D(d) < radius}
          IN  IF free = {} THEN m
              ELSE (id :> CHOOSE d \in free :
                            \A e \in free : D(d) < D(e) \/ (D(d) = D(e) /\ d <= e)) @@ m
    IN  FoldLeft(Take, matches, ids)

\* Mutant: the fallback by distance is left out.
OverlapOnly(tracks, dets) == Claims(<<>>, Order(tracks), tracks, dets, Overlap)

\* Overlap with the predicted box first, then the distance of the centres,
\* for tracks seen a short while ago.
Match(tracks, dets) ==
    LET Rest(m, ids) == SelectSeq(ids, LAMBDA id : id \notin DOMAIN m /\ tracks[id].lost <= Recent)
        Fallback(m, ids) == Claims(m, Rest(m, ids), tracks, dets, Reach)
    IN  Fallback(Claims(<<>>, Order(tracks), tracks, dets, Overlap), Order(tracks))

---------------------------------------------------------------------------
(* Velocity and the dwell state.                                           *)

\* Moving average, truncated to a tenth: 0.6 of the new value after a sudden
\* start or stop, 0.08 otherwise; a person who stands has no velocity.
Velocity(v, moved, dt) ==
    LET now == Truncated(10 * moved, dt)
        sudden == \/ Abs(v) > 1 /\ 2 * (Abs(v) - Abs(now)) > Abs(v)
                  \/ v = 0 /\ Abs(now) > 5
        sum == IF sudden THEN 40 * v + 60 * now ELSE 92 * v + 8 * now
    IN  IF now = 0 THEN 0 ELSE Truncated(sum, 100)

StationaryFrames(still, stationary) ==
    IF stationary THEN still + 1
    ELSE Least0(still - (IF still > StableAt THEN DecaySlow ELSE DecayFast))

\* Mutant: a person who walks on keeps the start of the last stay.
KeepsStart(t, now) ==
    LET stationary == t.v = 0
        still == StationaryFrames(t.still, stationary)
        start == IF t.start = 0 THEN now ELSE t.start
        state == IF now - start >= Assistance THEN "assistance"
                 ELSE IF now - start >= DwellMin THEN "engaged" ELSE "dwelling"
    IN  IF stationary /\ still >= MinFrames
        THEN [t EXCEPT !.still = still, !.start = start, !.dwell = now - start,
                       !.state = state]
        ELSE IF still = 0 THEN [t EXCEPT !.still = 0, !.state = "transient"]
        ELSE [t EXCEPT !.still = still]

\* update_dwell_state: few stationary frames keep the state they find.
Dwell(t, now) ==
    LET stationary == t.v = 0
        still == StationaryFrames(t.still, stationary)
        start == IF t.start = 0 THEN now ELSE t.start
        state == IF now - start >= Assistance THEN "assistance"
                 ELSE IF now - start >= DwellMin THEN "engaged" ELSE "dwelling"
    IN  IF stationary /\ still >= MinFrames
        THEN [t EXCEPT !.still = still, !.start = start, !.dwell = now - start,
                       !.state = state,
                       !.engaged = IF t.state \in {"transient", "dwelling"}
                                      /\ state \in {"engaged", "assistance"}
                                   THEN now ELSE @]
        ELSE IF still = 0
        THEN [t EXCEPT !.still = 0, !.state = "transient", !.start = 0, !.dwell = 0]
        ELSE [t EXCEPT !.still = still]

---------------------------------------------------------------------------
(* The counts.                                                             *)

\* A line stands at [at] half cells; going right over it (as line_side has it) is
\* an entry when it is inwards (line_ab_in).
Side(line, x) == 2 * x > line.at

\* The foot goes from one side of the line to the other; a foot on the line
\* itself has not crossed, in neither frame.
Crossing(line, from, to) ==
    IF line.at \in {2 * from, 2 * to} \/ Side(line, from) = Side(line, to) THEN 0
    ELSE IF Side(line, to) THEN 1 ELSE -1

NewTrack(cell) ==
    [x |-> cell, v |-> 0, state |-> "transient", start |-> 0, dwell |-> 0,
     engaged |-> 0, frames |-> 1, still |-> 0, lost |-> 0]

\* What is left of a track for the metrics.
TrackRecord(t, now) ==
    [dwell |-> t.dwell, at |-> now,
     engagement |-> IF t.engaged > 0 THEN now - t.engaged ELSE 0]

StateCount(tracks) ==
    LET counted == {id \in DOMAIN tracks : /\ tracks[id].lost = 0
                                           /\ CountZone # {} => tracks[id].x \in CountZone}
        In(states) == Cardinality({id \in counted : tracks[id].state \in states})
    IN  [total |-> Cardinality(counted), browsing |-> In({"transient", "dwelling"}),
         engaged |-> In({"engaged"}), assistance |-> In({"assistance"})]
=============================================================================
