\* Every conductor eventually holds every agent, under the event loop's and the conductors' fairness.
CONSTANTS
    k1 = k1  k2 = k2  k3 = k3
    Conductors <- MCConductors
SPECIFICATION FairSpec
PROPERTY EventuallyAllShared
\* The helper ends: once it returned and every request is applied,
\* nothing is left to happen.
CHECK_DEADLOCK FALSE
