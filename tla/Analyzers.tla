----------------------------- MODULE Analyzers -----------------------------
(***************************************************************************)
(* The analyzers of a stream (core-cpp/vb/src/analyzers) as operators on   *)
(* a = [st, lost, out]: st holds one record per key <<track, part>> (part  *)
(* is a zone, a line or a joint), lost the removed tracks each line still  *)
(* remembers, out the events of the frame.                                 *)
(*                                                                         *)
(* The anchor of a track is its position; a polygon is the set of the      *)
(* positions inside it; an angle is one of "in", "out", "unclear" (low     *)
(* confidence) and depends on the position.  Times are ticks.              *)
(***************************************************************************)
EXTENDS Tracker

NotSet == -2     \* an optional number that the configuration leaves out

\* The functions of the analyzers, by name.
Coasts(kind)      == kind \in {"zone", "line_cross"}   \* judges missed tracks too
NeedsTracks(kind) == kind # "count_threshold"

Parts(kind, cfg) ==
    CASE kind = "zone"       -> Len(cfg.zones)
      [] kind = "line_cross" -> Len(cfg.lines)
      [] kind = "pose_angle" -> Len(cfg.joints)
      [] OTHER               -> 1

NoLost(kind, cfg) ==
    IF kind = "line_cross" THEN [l \in DOMAIN cfg.lines |-> <<>>] ELSE <<>>

Fresh(kind, cfg) == [st |-> <<>>, lost |-> NoLost(kind, cfg), out |-> <<>>]

Ev(holds, type, key) == IF holds THEN <<[type |-> type, key |-> key]>> ELSE <<>>

Put(a, key, s, events) == [a EXCEPT !.st = (key :> s) @@ @, !.out = @ \o events]

ClassOk(cfg, tr) == cfg.classes = {} \/ tr.cls \in cfg.classes

\* The first zone that contains x, 0 when none does.
ZoneOf(zones, x) ==
    LET hit == {z \in DOMAIN zones : x \in zones[z].cells}
    IN IF hit = {} THEN 0 ELSE Min(hit)

---------------------------------------------------------------------------
\* Debounce: a raw value counts once it was seen again hold ticks later.

Debounced(state) == [state |-> state, pending |-> "none", since |-> 0]

\* Mutant: the old value does not clear what is pending.
PendingSurvives(d, raw, now, hold) ==
    IF raw = d.state THEN d
    ELSE IF d.pending # raw THEN [d EXCEPT !.pending = raw, !.since = now]
    ELSE IF now - d.since >= hold THEN Debounced(raw)
    ELSE d

DebounceStep(d, raw, now, hold) ==
    IF raw = d.state THEN Debounced(raw)
    ELSE IF d.pending # raw THEN [d EXCEPT !.pending = raw, !.since = now]
    ELSE IF now - d.since >= hold THEN Debounced(raw)
    ELSE d

Commits(d, e) == e.state # d.state

---------------------------------------------------------------------------
\* zone

ZoneStep(cfg, a, tr, z, now) ==
    LET k      == <<tr.id, z>>
        s      == IF k \in DOMAIN a.st THEN a.st[k]
                  ELSE [inside |-> FALSE, since |-> 0, fired |-> FALSE]
        inside == tr.at \in cfg.zones[z].cells
        enters == inside /\ ~s.inside
        since  == IF enters THEN now ELSE s.since
        fired  == s.fired /\ ~enters
        dwells == inside /\ ~fired /\ cfg.minDwell > 0 /\ now - since >= cfg.minDwell
    IN Put(a, k, [inside |-> inside, since |-> since, fired |-> fired \/ dwells],
           Ev(enters, "zone_enter", k) \o Ev(s.inside /\ ~inside, "zone_exit", k)
             \o Ev(dwells, "zone_dwell", k))

---------------------------------------------------------------------------
\* line_cross: forward is 1 (from the positive to the negative side)

Unseen == [side |-> 0, counted |-> 0, anchor |-> <<>>, last |-> 0, age |-> 0]

Side(line, x) ==
    IF line.c - x > line.band THEN 1 ELSE IF x - line.c > line.band THEN -1 ELSE 0

\* Mutant: nothing is inherited after an ID switch.
NoHeir(cfg, lost, x, now) == 0

\* A new track takes over the first remembered one that was close enough.
Heir(cfg, lost, x, now) ==
    LET near == {i \in DOMAIN lost : /\ now - lost[i].t <= cfg.rebornWindow
                                     /\ Dist(x, lost[i].at) <= cfg.rebornDist}
    IN IF near = {} THEN 0 ELSE Min(near)

LineStep(cfg, a, tr, l, now) ==
    LET k      == <<tr.id, l>>
        x      == Predicted(tr, now)
        heir   == IF k \in DOMAIN a.st THEN 0 ELSE Heir(cfg, a.lost[l], x, now)
        s0     == IF k \in DOMAIN a.st THEN a.st[k]
                  ELSE IF heir = 0 THEN Unseen
                  ELSE [Unseen EXCEPT !.side    = a.lost[l][heir].side,
                                      !.counted = a.lost[l][heir].counted]
        s      == [s0 EXCEPT !.last = x, !.age = @ + 1]
        cur    == Side(cfg.lines[l], x)
        counts == /\ cur # 0 /\ s.side # 0 /\ cur # s.side
                  /\ x \notin cfg.lines[l].off
                  /\ s.age >= cfg.minFrames
                  /\ s.counted # s.side
                  /\ s.anchor # <<>> => Dist(x, Head(s.anchor)) >= cfg.minTravel
        crossed == [s EXCEPT !.side    = IF cur = 0 THEN @ ELSE cur,
                             !.counted = IF counts THEN s.side ELSE @,
                             !.anchor  = IF counts THEN <<x>> ELSE @]
    IN Put([a EXCEPT !.lost[l] = IF heir = 0 THEN @ ELSE RemoveAt(@, heir)], k, crossed,
           Ev(counts, IF s.side = 1 THEN "forward" ELSE "backward", k))

---------------------------------------------------------------------------
\* dwell

DwellStep(cfg, a, tr, now) ==
    LET k      == <<tr.id, 1>>
        z      == ZoneOf(cfg.zones, tr.at)
        anew   == [from |-> tr.at, since |-> now, active |-> FALSE, last |-> 0, zone |-> z]
        s      == IF k \in DOMAIN a.st THEN a.st[k] ELSE anew
        left   == (cfg.zones # <<>> /\ z = 0) \/ z # s.zone
        moved  == Dist(tr.at, s.from) > cfg.radius
        starts == ~s.active /\ now - s.since >= cfg.minDwell
        repeats == s.active /\ cfg.repeat > 0 /\ now - s.last >= cfg.repeat
    IN IF k \notin DOMAIN a.st THEN Put(a, k, anew, <<>>)
       ELSE IF left \/ moved THEN Put(a, k, anew, Ev(s.active, "dwell_end", k))
       ELSE Put(a, k, [s EXCEPT !.active = @ \/ starts,
                                !.last = IF starts \/ repeats THEN now ELSE @],
                Ev(starts, "dwell_start", k) \o Ev(repeats, "dwell_update", k))

---------------------------------------------------------------------------
\* direction, speed: a window of past positions, then the debouncer

History(a, k, tr, cfg, now) ==
    LET old == IF k \in DOMAIN a.st THEN a.st[k].hist ELSE <<>>
    IN SelectSeq(Append(old, [t |-> now, at |-> tr.at]), LAMBDA p : now - p.t <= cfg.window)

Span(hist) == Last(hist).t - Head(hist).t
Travel(hist) == Last(hist).at - Head(hist).at
Samples(hist, cfg) == Len(hist) >= 2 /\ 2 * Span(hist) >= cfg.window

Judge(a, k, hist, initial, judged, raw, hold, now) ==
    LET d == IF k \in DOMAIN a.st THEN a.st[k].deb ELSE Debounced(initial)
        e == IF judged THEN DebounceStep(d, raw, now, hold) ELSE d
    IN Put(a, k, [hist |-> hist, deb |-> e], Ev(Commits(d, e), e.state, k))

DirectionStep(cfg, a, tr, now) ==
    LET k    == <<tr.id, 1>>
        hist == History(a, k, tr, cfg, now)
        raw  == IF Sign(Travel(hist)) = cfg.expected THEN "ok" ELSE "wrong"
    IN IF cfg.zones # <<>> /\ ZoneOf(cfg.zones, tr.at) = 0 THEN a
       ELSE Judge(a, k, hist, "ok",
                  Samples(hist, cfg) /\ Dist(Travel(hist), 0) >= cfg.minTravel,
                  raw, cfg.hold, now)

SpeedStep(cfg, a, tr, now) ==
    LET k    == <<tr.id, 1>>
        hist == History(a, k, tr, cfg, now)
        way  == Dist(Travel(hist), 0)
        raw  == IF cfg.max # NotSet /\ way > cfg.max * Span(hist) THEN "over"
                ELSE IF cfg.min # NotSet /\ way < cfg.min * Span(hist) THEN "under"
                ELSE "normal"
    IN Judge(a, k, hist, "normal", Samples(hist, cfg), raw, cfg.hold, now)

---------------------------------------------------------------------------
\* pose_angle

PoseStep(cfg, a, tr, j, now) ==
    LET k     == <<tr.id, j>>
        joint == cfg.joints[j]
    IN IF tr.at \in joint.unclear THEN a
       ELSE Judge(a, k, <<>>, "in", TRUE, IF tr.at \in joint.out THEN "out" ELSE "in",
                  cfg.hold, now)

---------------------------------------------------------------------------
\* count_threshold: keys are <<0, zone id>>

Frame == [id |-> "frame", verts |-> 4, cells |-> Int]

EffectiveZones(cfg) == IF cfg.zones = <<>> THEN <<Frame>> ELSE cfg.zones

RawCount(cfg, alive, zone) ==
    LET n == Cardinality({i \in DOMAIN alive : /\ alive[i].misses = 0
                                               /\ ClassOk(cfg, alive[i])
                                               /\ alive[i].at \in zone.cells})
    IN IF cfg.max # NotSet /\ n > cfg.max THEN "over"
       ELSE IF cfg.min # NotSet /\ n < cfg.min THEN "under"
       ELSE "normal"

CountStep(cfg, a, alive, zone, now) ==
    Judge(a, <<0, zone.id>>, <<>>, "normal", TRUE, RawCount(cfg, alive, zone), cfg.hold, now)

---------------------------------------------------------------------------
\* One frame and one removed track, for the analyzer named kind.

Step(kind, cfg, a, tr, part, now) ==
    CASE kind = "zone"       -> ZoneStep(cfg, a, tr, part, now)
      [] kind = "line_cross" -> LineStep(cfg, a, tr, part, now)
      [] kind = "dwell"      -> DwellStep(cfg, a, tr, now)
      [] kind = "direction"  -> DirectionStep(cfg, a, tr, now)
      [] kind = "speed"      -> SpeedStep(cfg, a, tr, now)
      [] kind = "pose_angle" -> PoseStep(cfg, a, tr, part, now)

OnFrame(kind, cfg, a, alive, now) ==
    IF kind = "count_threshold"
    THEN FoldLeft(LAMBDA b, zone : CountStep(cfg, b, alive, zone, now), a, EffectiveZones(cfg))
    ELSE LET Judged(tr) == ClassOk(cfg, tr) /\ (tr.misses = 0 \/ Coasts(kind))
             Visit(b, tr) == FoldLeft(LAMBDA c, part : Step(kind, cfg, c, tr, part, now),
                                      b, [part \in 1..Parts(kind, cfg) |-> part])
         IN FoldLeft(Visit, a, SelectSeq(alive, Judged))

\* Mutant: no end for a dwell.
ForgetsDwell(s) == <<>>

\* The events that close what a removed track leaves open.
ZoneCloses(s)  == IF s.inside THEN <<"zone_exit">> ELSE <<>>
DwellCloses(s) == IF s.active THEN <<"dwell_end">> ELSE <<>>
WayCloses(s)   == IF s.deb.state = "wrong" THEN <<"ok">> ELSE <<>>

Closing(kind, s) ==
    CASE kind = "zone"      -> ZoneCloses(s)
      [] kind = "dwell"     -> DwellCloses(s)
      [] kind = "direction" -> WayCloses(s)
      [] OTHER              -> <<>>

\* line_cross remembers what it counted and forgets what is too old.
Remember(cfg, lost, s, now) ==
    LET all == IF s.counted = 0 THEN lost
               ELSE Append(lost, [t |-> now, at |-> s.last, counted |-> s.counted,
                                  side |-> s.side])
        Young(i) == now - all[i].t <= cfg.rebornWindow
        keep == {i \in DOMAIN all : Young(i)}
    IN IF keep = {} THEN <<>> ELSE SubSeq(all, Min(keep), Len(all))

OnTrackRemoved(kind, cfg, a, id, now) ==
    LET keys == {k \in DOMAIN a.st : k[1] = id}
        Close(b, k) == [b EXCEPT !.out = @ \o [n \in DOMAIN Closing(kind, a.st[k]) |->
                                     [type |-> Closing(kind, a.st[k])[n], key |-> k]]]
        closed == FoldLeft(Close, a, SetToSortSeq(keys, LAMBDA j, k : j[2] < k[2]))
        lost == [l \in DOMAIN a.lost |->
                    IF <<id, l>> \in keys THEN Remember(cfg, a.lost[l], a.st[<<id, l>>], now)
                    ELSE a.lost[l]]
    IN IF kind = "count_threshold" THEN a
       ELSE [closed EXCEPT !.st = RestrictDomain(@, LAMBDA k : k \notin keys), !.lost = lost]

---------------------------------------------------------------------------
\* configure: what parse_cfg accepts; a number of the wrong type is -1.

Optional(x) == x \in Nat \cup {NotSet}

ZonesOk(zones, most, verts) ==
    /\ Len(zones) <= most
    /\ \A y, z \in DOMAIN zones : y # z => zones[y].id # zones[z].id
    /\ \A z \in DOMAIN zones : zones[z].id # "" /\ zones[z].verts \in 3..verts

ZoneCfgOk(c) == Len(c.zones) > 0 /\ ZonesOk(c.zones, 64, 16) /\ c.minDwell \in Nat

LineCfgOk(c) ==
    /\ Len(c.lines) \in 1..64
    /\ \A k, l \in DOMAIN c.lines : k # l => c.lines[k].id # c.lines[l].id
    /\ \A l \in DOMAIN c.lines : c.lines[l].id # "" /\ c.lines[l].length > 0
    /\ {c.minTravel, c.rebornWindow, c.rebornDist} \subseteq Nat
    /\ c.minFrames >= 1

DwellCfgOk(c) ==
    ZonesOk(c.zones, 64, 64) /\ c.radius > 0 /\ {c.minDwell, c.repeat} \subseteq Nat

DirectionCfgOk(c) ==
    /\ ZonesOk(c.zones, 64, 64)
    /\ c.expected \in {-1, 1} /\ c.window > 0 /\ {c.minTravel, c.hold} \subseteq Nat

SpeedCfgOk(c) ==
    /\ c.window > 0 /\ c.hold \in Nat
    /\ Optional(c.max) /\ Optional(c.min) /\ {c.max, c.min} # {NotSet}

PoseCfgOk(c) ==
    c.hold \in Nat /\ \A j \in DOMAIN c.joints : c.joints[j].id # "" /\ c.joints[j].limits > 0

CountCfgOk(c) ==
    /\ ZonesOk(c.zones, 64, 64) /\ c.hold \in Nat
    /\ Optional(c.max) /\ Optional(c.min) /\ {c.max, c.min} # {NotSet}

CfgOk(kind, c) ==
    CASE kind = "zone"            -> ZoneCfgOk(c)
      [] kind = "line_cross"      -> LineCfgOk(c)
      [] kind = "dwell"           -> DwellCfgOk(c)
      [] kind = "direction"       -> DirectionCfgOk(c)
      [] kind = "speed"           -> SpeedCfgOk(c)
      [] kind = "pose_angle"      -> PoseCfgOk(c)
      [] kind = "count_threshold" -> CountCfgOk(c)

\* count_threshold keeps the state of a zone whose id and polygon stay.
KeptZones(old, new, a) ==
    RestrictDomain(a.st, LAMBDA k :
        \E y \in DOMAIN old.zones, z \in DOMAIN new.zones :
            old.zones[y] = new.zones[z] /\ k = <<0, new.zones[z].id>>)

Configured(kind, old, new, a) ==
    [Fresh(kind, new) EXCEPT
        !.st = IF kind = "count_threshold" THEN KeptZones(old, new, a) ELSE <<>>]
=============================================================================
