-------------------------- MODULE MCStorageClient --------------------------
EXTENDS StorageClient, TLC

CONSTANTS t1, t2, c1, c2, w1, w2

MCTaskId == {t1, t2}
MCContext == {c1, c2}
MCWorker == {w1, w2}
MCCaps == {-1, 0, 1}

Symmetry == Permutations(MCTaskId) \cup Permutations(MCContext) \cup Permutations(MCWorker)

(* Bound: at most this many entries wait in the queue.                     *)
QueueBound == Len(queue) <= 3
=============================================================================
