------------------------- MODULE MCAgentMessaging -------------------------
(* Two agents, the child spawned by the parent and parked when idle.       *)
EXTENDS AgentMessaging

CONSTANTS parent, child
MCAgents == {parent, child}
MCParent == [x \in MCAgents |-> IF x = child THEN parent ELSE None]
=============================================================================
