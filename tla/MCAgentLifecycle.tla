-------------------------- MODULE MCAgentLifecycle --------------------------
(* One agent with its first session and up to two revivals. *)
EXTENDS AgentLifecycle
=============================================================================
