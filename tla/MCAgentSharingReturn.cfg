\* The helper returns before the addAgentInfo requests it did not await are applied.
CONSTANTS
    k1 = k1  k2 = k2  k3 = k3
    Conductors <- MCConductors
SPECIFICATION Spec
INVARIANT SharedWhenReturned
\* The helper ends: once it returned and every request is applied,
\* nothing is left to happen.
CHECK_DEADLOCK FALSE
