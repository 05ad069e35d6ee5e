---------------------------- MODULE MCContextPool ----------------------------
(* Two stream indices and one or two context threads; the second instance    *)
(* is a second stream, or the one that uses the index of the first again.    *)
EXTENDS ContextPool, TLC

CONSTANTS i1, i2, c1, c2

\* For the safety runs: nothing tells instances or context threads apart.
Alike == Permutations(Instances) \cup Permutations(Contexts)
=============================================================================
