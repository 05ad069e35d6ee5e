------------------------------ MODULE MCRetail ------------------------------
(* Five cells, the outer ones at the edge, a line between the cells 1 and 2. *)
(* A person alone; with false detections in the middle and a line; and       *)
(* without occlusion while the source pauses for more than two intervals.    *)
EXTENDS Retail

Gate == [at |-> 3, inwards |-> TRUE]

Alone  == [line |-> NoLine, others |-> {{}}, pauses |-> {1}, hides |-> TRUE, frames |-> 8]
Ghosts == [Alone EXCEPT !.line = Gate, !.others = {{}, {2}}, !.frames = 5]
Pauses == [Alone EXCEPT !.hides = FALSE, !.pauses = {1, 7}, !.frames = 9]

MCScenes == {Alone, Ghosts, Pauses}
MCZone == {1, 2, 3}
=============================================================================
