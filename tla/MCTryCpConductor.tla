--------------------------- MODULE MCTryCpConductor ---------------------------
(* Model-checking instance of TryCpConductor: two concurrent tasks, two     *)
(* ports getPort may hand out, one hApp and one signal handler.             *)
EXTENDS TryCpConductor, TLC

CONSTANTS t1, t2, p1, p2, a1, h1

MCTasks == {t1, t2}
MCPorts == {p1, p2}
MCApps == {a1}
MCHandlers == {h1}

\* Tasks run the same code and getPort may return either port: both sets
\* are symmetric for the safety runs.
MCSymmetry == Permutations(MCTasks) \cup Permutations(MCPorts)
=============================================================================
