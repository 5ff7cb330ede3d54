---------------------------- MODULE MCAgentLoop ----------------------------
(* Instances of AgentLoop for TLC: the bounds are in the configurations.    *)
EXTENDS AgentLoop
=============================================================================
