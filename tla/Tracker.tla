------------------------------ MODULE Tracker ------------------------------
(***************************************************************************)
(* vb::Tracker (core-cpp/vb/src/tracker.cpp) as operators; Analytics keeps *)
(* the state.                                                              *)
(*                                                                         *)
(* Boxes have one size and stand on a line: a position is an integer, and  *)
(* both association costs (overlap, distance of the centres) decrease with *)
(* the distance of two positions.  A detection is [at, cls], a track       *)
(* [id, at, cls, v, hits, misses, seen].  The velocity is rounded to one   *)
(* position per tick: the moving average either keeps the old value or     *)
(* takes the new one.                                                      *)
(***************************************************************************)
EXTENDS Integers, FiniteSets, SequencesExt

CONSTANTS ClassAware,     \* class_aware
          Overlap,        \* boxes closer than this overlap by iou_threshold
          Reach,          \* dist_threshold
          FallbackMisses, \* kFallbackMaxMisses
          MaxMisses,      \* max_misses
          MaxLost,        \* max_lost_s, 0 when off
          MinHits         \* min_hits

ASSUME TrackerAssumption ==
    /\ ClassAware \in BOOLEAN
    /\ {Overlap, Reach, MinHits} \subseteq Nat \ {0}
    /\ {FallbackMisses, MaxMisses, MaxLost} \subseteq Nat

Dist(x, y) == IF x < y THEN y - x ELSE x - y

Sign(x) == IF x = 0 THEN 0 ELSE IF x > 0 THEN 1 ELSE -1

EmptyTracker == [tracks |-> <<>>, next |-> 1]

\* A track that was missed is expected further along its way.
Predicted(tr, now) == IF tr.misses > 0 THEN tr.at + tr.v * (now - tr.seen) ELSE tr.at

\* Indices of the tracks, most hits first, older first among equals.
Order(tracks) ==
    SetToSortSeq(DOMAIN tracks,
                 LAMBDA i, j : \/ tracks[i].hits > tracks[j].hits
                               \/ tracks[i].hits = tracks[j].hits /\ i < j)

Candidates(tr, dets, taken, radius, now) ==
    {d \in DOMAIN dets \ taken :
        /\ ClassAware => dets[d].cls = tr.cls
        /\ Dist(dets[d].at, Predicted(tr, now)) < radius}

\* The nearest candidate, the first one when several are as near.
Nearest(tr, dets, cand, now) ==
    LET D(d) == Dist(dets[d].at, Predicted(tr, now))
    IN CHOOSE d \in cand : \A e \in cand : D(d) < D(e) \/ (D(d) = D(e) /\ d <= e)

\* One pass over the tracks: each one that Tries and has no detection yet
\* takes its nearest free one.
Pass(match, tracks, dets, radius, Tries(_), now) ==
    LET Assign(m, i) ==
            LET cand == Candidates(tracks[i], dets, Range(m), radius, now)
            IN IF i \in DOMAIN m \/ ~Tries(tracks[i]) \/ cand = {} THEN m
               ELSE m @@ (i :> Nearest(tracks[i], dets, cand, now))
    IN FoldLeft(Assign, match, Order(tracks))

\* Mutant: the distance decides before the overlap does.
DistanceFirst(tracks, dets, now) ==
    LET byDistance == Pass(<<>>, tracks, dets, Reach,
                           LAMBDA tr : tr.misses <= FallbackMisses, now)
    IN Pass(byDistance, tracks, dets, Overlap, LAMBDA tr : TRUE, now)

\* Overlap first, then the distance for tracks lost not long ago.
Match(tracks, dets, now) ==
    LET byOverlap == Pass(<<>>, tracks, dets, Overlap, LAMBDA tr : TRUE, now)
    IN Pass(byOverlap, tracks, dets, Reach, LAMBDA tr : tr.misses <= FallbackMisses, now)

\* update_velocity; swift: a sudden start or stop, the new speed weighs more.
NewVelocity(tr, d, swift) ==
    IF d.at = tr.at THEN 0 ELSE IF swift THEN Sign(d.at - tr.at) ELSE tr.v

Refreshed(tr, d, now, swift) ==
    [tr EXCEPT !.at = d.at, !.cls = d.cls, !.v = NewVelocity(tr, d, swift),
               !.hits = @ + 1, !.misses = 0, !.seen = now]

\* Mutant: one miss too many.
ExpiresLate(tr, now) == tr.misses > MaxMisses + 1 \/ (MaxLost > 0 /\ now - tr.seen > MaxLost)

Expired(tr, now) == tr.misses > MaxMisses \/ (MaxLost > 0 /\ now - tr.seen > MaxLost)

NewTrack(id, d, now) ==
    [id |-> id, at |-> d.at, cls |-> d.cls, v |-> 0, hits |-> 1, misses |-> 0, seen |-> now]

Aged(match, tracks, dets, now, swift) ==
    [i \in DOMAIN tracks |-> IF i \in DOMAIN match
                             THEN Refreshed(tracks[i], dets[match[i]], now, swift)
                             ELSE [tracks[i] EXCEPT !.misses = @ + 1]]

\* The tracker afterwards, the ids removed, the id of each detection.
Settled(match, aged, T, dets, now) ==
    LET free  == SetToSortSeq(DOMAIN dets \ Range(match), <)
        fresh == [n \in DOMAIN free |-> NewTrack(T.next + n - 1, dets[free[n]], now)]
        Id(d) == IF d \in Range(match)
                 THEN T.tracks[CHOOSE i \in DOMAIN match : match[i] = d].id
                 ELSE T.next + (CHOOSE n \in DOMAIN free : free[n] = d) - 1
    IN [tracker |-> [tracks |-> SelectSeq(aged, LAMBDA tr : ~Expired(tr, now)) \o fresh,
                     next   |-> T.next + Len(fresh)],
        removed |-> LET old == SelectSeq(aged, LAMBDA tr : Expired(tr, now))
                    IN [n \in DOMAIN old |-> old[n].id],
        ids     |-> [d \in DOMAIN dets |-> Id(d)]]

\* Tracker::update.
Update(T, dets, now, swift) ==
    LET Moved(match) == Settled(match, Aged(match, T.tracks, dets, now, swift), T, dets, now)
    IN Moved(Match(T.tracks, dets, now))

\* The list the analyzers see.
Alive(tracks) == SelectSeq(tracks, LAMBDA tr : tr.hits >= MinHits)
=============================================================================
