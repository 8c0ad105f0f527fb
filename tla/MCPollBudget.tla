---------------------------- MODULE MCPollBudget ----------------------------
(* Small instances of PollBudget for TLC. *)
EXTENDS PollBudget
=============================================================================
