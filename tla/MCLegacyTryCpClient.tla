------------------------- MODULE MCLegacyTryCpClient -------------------------
(* Model-checking instance of LegacyTryCpClient: two callers.               *)
EXTENDS LegacyTryCpClient

CONSTANTS c1, c2

MCCallers == {c1, c2}
=============================================================================
