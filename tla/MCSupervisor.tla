---------------------------- MODULE MCSupervisor -----------------------------
(* Streams a and b, one per shard; a is configured.  The commands add b,     *)
(* remove a, set the threshold of a, and set one out of range.               *)
EXTENDS Supervisor

CONSTANTS a, b

One == <<[id |-> a, thr |-> 0]>>

Request(rid, op, sid, thr) == [rid |-> rid, op |-> op, sid |-> sid, thr |-> thr]
Commands == {Request(1, "add", b, 0), Request(2, "remove", a, 0), Request(3, "threshold", a, 1),
           Request(4, "threshold", b, 2)}
Twice == {Request(1, "add", b, 0), Request(2, "add", b, 0)}
=============================================================================
