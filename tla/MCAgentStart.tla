---------------------------- MODULE MCAgentStart ----------------------------
(* Instances of AgentStart for TLC. *)
EXTENDS AgentStart

\* The three modes and a number out of range on either side.
FiveArguments == -1..3
=============================================================================
