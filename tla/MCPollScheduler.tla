-------------------------- MODULE MCPollScheduler --------------------------
(* Small instances of PollScheduler for TLC. *)
EXTENDS PollScheduler
=============================================================================
