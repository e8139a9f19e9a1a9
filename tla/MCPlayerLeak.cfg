\* Three tasks spawn one player's conductor concurrently.
CONSTANTS
    t1 = t1  t2 = t2  t3 = t3  q1 = q1  q2 = q2  q3 = q3
    NoConductor = NoConductor
    Tasks <- MCTasks
    Procs <- MCProcs
SPECIFICATION Spec
INVARIANT NoLeakedConductor
SYMMETRY MCSymmetry
