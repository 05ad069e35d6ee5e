---------------------------- MODULE MCStandalone -----------------------------
(* Two context threads and the control thread; room for one frame and one   *)
(* event, so that parking starts at the second event.                      *)
EXTENDS Standalone

CONSTANTS w1, w2, ctl

MCWorkers == {w1, w2}
MCMaxPush == (w1 :> 2) @@ (w2 :> 1) @@ (ctl :> 1)
=============================================================================
