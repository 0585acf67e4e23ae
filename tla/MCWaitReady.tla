----------------------------- MODULE MCWaitReady -----------------------------
(* The TLC instance of WaitReady; all its parameters are in the .cfg.       *)
EXTENDS WaitReady
=============================================================================
