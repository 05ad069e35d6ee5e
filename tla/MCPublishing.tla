---------------------------- MODULE MCPublishing -----------------------------
(* The worker and one other thread that publishes or subscribes; one place   *)
(* in flight, so that publishers wait for each other.                        *)
EXTENDS Publishing

CONSTANTS w, a, f1

\* The second message says again what the first one said; the third one is
\* another, of QoS 0.
Repeated == <<"one", "one", "other">>
ThenQos0 == <<1, 1, 0>>
Alone  == [n \in Submitted |-> n]
AllQos1 == [n \in Submitted |-> 1]
=============================================================================
