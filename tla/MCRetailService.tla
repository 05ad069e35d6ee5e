-------------------------- MODULE MCRetailService --------------------------
(* One worker; two failed reads switch the source, or end the worker.       *)
EXTENDS RetailService
=============================================================================
