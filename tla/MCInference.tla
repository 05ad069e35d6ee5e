---------------------------- MODULE MCInference ----------------------------
(* The frame sources and the inference contexts for TLC. *)
EXTENDS Inference

\* A pool of decoder buffers just larger than what one source, its mailbox and
\* a context can hold at once.
MCBuffers == 1..4
=============================================================================
