---------------------------- MODULE MCPollWorker ----------------------------
(* Small instances of PollWorker for TLC. *)
EXTENDS PollWorker, TLC

\* Every device on the one site the instances have.
MCSiteOf == [d \in Device |-> CHOOSE s \in Site : TRUE]

\* Devices and handlers are interchangeable (safety runs only).
Symmetric == Permutations(Device) \cup Permutations(Worker)

=============================================================================
