------------------------------ MODULE MCPullLoop ------------------------------
(* The TLC instance of PullLoop; all its parameters are in the .cfg.        *)
EXTENDS PullLoop
=============================================================================
