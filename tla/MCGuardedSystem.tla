-------------------------- MODULE MCGuardedSystem --------------------------
EXTENDS GuardedSystem, TLC

CONSTANTS t1, t2, c1, c2, w1, w2, r1, r2, s1, s2, b1

Symmetry == Permutations(TaskId) \cup Permutations(Context) \cup Permutations(Worker)
              \cup Permutations(Sender) \cup Permutations(Streamer)
=============================================================================
