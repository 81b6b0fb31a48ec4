------------------------------ MODULE MCAsync ------------------------------
(* A finite instance of AsyncTasks.                                         *)
EXTENDS AsyncTasks, TLC

CONSTANTS t1, t2, c1, c2, w1, w2
Threads == Permutations({w1, w2}) \cup Permutations({c1, c2})
             \cup Permutations({t1, t2})
=============================================================================
