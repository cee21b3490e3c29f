--------------------------- MODULE MCAgentSession ---------------------------
(* A small instance of AgentSession: two turns, narrow channels.           *)
EXTENDS AgentSession
=============================================================================
