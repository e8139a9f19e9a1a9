---------------------------- MODULE MCTryCpClient ----------------------------
(* Model-checking instance of TryCpClient: two callers, two payloads, one   *)
(* app interface port with one handler.                          *)
EXTENDS TryCpClient

CONSTANTS c1, c2, r1, r2, p1, h1

MCCallers == {c1, c2}
MCRequests == {r1, r2}
MCPorts == {p1}
MCHandlers == {h1}
=============================================================================
