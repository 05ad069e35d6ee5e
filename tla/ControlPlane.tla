---------------------------- MODULE ControlPlane -----------------------------
(* The control plane of vision_base: the bounded queue in front of the       *)
(* command thread, the checks of a command, and the store of answers that    *)
(* makes a redelivered command harmless.  A message is a record              *)
(*   [rid, op, sid, thr]   its request id, command, stream and threshold,    *)
(* an answer is [rid, ok].  The store is the OrderedDict of the code: a      *)
(* sequence, the least recently used answer first.                           *)
EXTENDS Integers, Sequences, SequencesExt, FiniteSets

CONSTANTS Requests,     \* the commands clients send
          QueueMax,     \* CMD_QUEUE_MAX_MESSAGES
          SeenSize      \* seen_size of the store

Thresholds == 0..2          \* 2 stands for a number outside [0, 1]

ASSUME PlaneAssumption ==
    /\ QueueMax \in Nat \ {0} /\ SeenSize \in Nat \ {0}
    /\ \A r, s \in Requests : r.rid = s.rid => r = s
    /\ \A r \in Requests : r.thr \in Thresholds

RequestIds == {r.rid : r \in Requests}
Answers == [rid : RequestIds, ok : BOOLEAN]

(* A retained or misshapen message never takes a place in the queue, nor     *)
(* does one that finds it full.                                              *)
AdmitsOneMore(queue, r, usable) ==
    IF usable /\ Len(queue) <= QueueMax THEN Append(queue, r) ELSE queue
Admit(queue, r, usable) ==
    IF usable /\ Len(queue) < QueueMax THEN Append(queue, r) ELSE queue

(* What the parameters of a command must look like before it is executed.    *)
ValidParams(r) ==
    CASE r.op \in {"add", "threshold"} -> r.thr # 2
      [] r.op = "remove" -> TRUE
      [] OTHER -> FALSE

Known(seen, r) == \E i \in DOMAIN seen : seen[i].rid = r.rid

Stored(seen, r) == seen[CHOOSE i \in DOMAIN seen : seen[i].rid = r.rid]

(* move_to_end: an answer that is used again is the last to be forgotten.    *)
Refresh(seen, r) ==
    Append(RemoveFirstMatch(seen, LAMBDA a : a.rid = r.rid), Stored(seen, r))

(* A new answer is stored, and the oldest is dropped above seen_size.        *)
DropsEarly(seen, answer) ==
    LET all == Append(seen, answer)
    IN  IF Len(all) >= SeenSize THEN Tail(all) ELSE all
Remember(seen, answer) ==
    LET all == Append(seen, answer)
    IN  IF Len(all) > SeenSize THEN Tail(all) ELSE all
=============================================================================
