---------------------------- MODULE MCAgentSharing ----------------------------
(* Model-checking instance of AgentSharing: three conductors, so a         *)
(* conductor's snapshot can already hold agents learned from another one.  *)
EXTENDS AgentSharing

CONSTANTS k1, k2, k3

MCConductors == {k1, k2, k3}
=============================================================================
