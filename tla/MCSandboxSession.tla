-------------------------- MODULE MCSandboxSession --------------------------
(* Instances of SandboxSession for TLC.                                     *)
EXTENDS SandboxSession

CONSTANTS s1, p1, a, b

\* The session of the agents, or the one of the verification gate.
Gate == {"fork", "upstream", "usability"}
AgentOrGate == {{"pip"}, {"search"}, Gate}
=============================================================================
