---------------------------- MODULE MCAnalytics ----------------------------
(* Three positions and a line at the middle one; persons of class 1 anywhere, *)
(* one of class 2 in the middle.  The tracker meets its scenes with the zone  *)
(* analyzer; the others get the scenes and the time that they need.           *)
EXTENDS Analytics

P(x) == [at |-> x, cls |-> 1]
Q    == [at |-> 2, cls |-> 2]

Alone  == {<<>>, <<P(1)>>, <<P(2)>>, <<P(3)>>}
Pairs  == Alone \cup {<<P(1), P(3)>>}
Crowd  == Pairs \cup {<<Q>>, <<P(1), P(2)>>, <<P(2), P(2)>>, <<Q, P(2)>>}

MCScenes ==
    [zone |-> Crowd, line_cross |-> Pairs, dwell |-> Pairs, direction |-> Pairs,
     speed |-> Pairs, pose_angle |-> Alone, count_threshold |-> Pairs \cup {<<P(1), P(2)>>}]

MCMaxTime ==
    [zone |-> 4, line_cross |-> 8, dwell |-> 5, direction |-> 5, speed |-> 5,
     pose_angle |-> 6, count_threshold |-> 5]

Zone(id, cells) == [id |-> id, verts |-> 4, cells |-> cells]
Left  == Zone("left", {1, 2})
Right == Zone("right", {2, 3})

ZoneCfg  == [zones |-> <<Left, Right>>, classes |-> {}, minDwell |-> 2]
LineCfg  == [lines |-> <<[id |-> "gate", length |-> 1, c |-> 2, band |-> 0, off |-> {4}]>>,
             classes |-> {1}, minTravel |-> 1, rebornWindow |-> 2, rebornDist |-> 2,
             minFrames |-> 2]
DwellCfg == [zones |-> <<Left, Zone("far", {3})>>, classes |-> {1}, radius |-> 1,
             minDwell |-> 2, repeat |-> 2]
WayCfg   == [zones |-> <<Zone("way", {1, 2, 3})>>, classes |-> {}, expected |-> 1,
             window |-> 2, minTravel |-> 1, hold |-> 1]
SpeedCfg == [classes |-> {}, window |-> 2, hold |-> 1, max |-> 1, min |-> NotSet]
PoseCfg  == [classes |-> {}, hold |-> 1,
             joints |-> <<[id |-> "knee", limits |-> 1, out |-> {1, 2}, unclear |-> {3}]>>]
CountCfg == [zones |-> <<Left>>, classes |-> {}, hold |-> 2, max |-> 1, min |-> NotSet]

MCConfigs ==
    [zone            |-> {ZoneCfg, [ZoneCfg EXCEPT !.zones = <<Left, Left>>]},
     line_cross      |-> {LineCfg, [LineCfg EXCEPT !.minTravel = -1]},
     dwell           |-> {DwellCfg, [DwellCfg EXCEPT !.radius = 0]},
     direction       |-> {WayCfg, [WayCfg EXCEPT !.window = 0]},
     speed           |-> {SpeedCfg, [SpeedCfg EXCEPT !.max = NotSet]},
     pose_angle      |-> {PoseCfg, [PoseCfg EXCEPT !.hold = -1]},
     count_threshold |-> {CountCfg, [CountCfg EXCEPT !.zones = <<>>, !.min = 1],
                          [CountCfg EXCEPT !.zones = <<Left, Right>>, !.hold = 1]}]
=============================================================================
