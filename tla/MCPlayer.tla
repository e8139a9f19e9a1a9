-------------------------------- MODULE MCPlayer --------------------------------
(* Model-checking instance of Player: three tasks, three process ids.         *)
EXTENDS Player, TLC

CONSTANTS t1, t2, t3, q1, q2, q3

MCTasks == {t1, t2, t3}
MCProcs == {q1, q2, q3}

\* The tasks run the same code, and process ids are interchangeable.
MCSymmetry == Permutations(MCTasks) \cup Permutations(MCProcs)
=============================================================================
