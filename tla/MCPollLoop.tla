------------------------------ MODULE MCPollLoop -----------------------------
(* Small instances of PollLoop for TLC. *)
EXTENDS PollLoop

CONSTANTS command1, client1, client2
==============================================================================
