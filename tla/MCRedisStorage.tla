-------------------------- MODULE MCRedisStorage --------------------------
EXTENDS RedisStorage, TLC

CONSTANTS t1, t2

MCTaskId == {t1, t2}
MCOneTask == {t1}

(* One message for each of two tasks; one task that is enqueued again;     *)
(* either of these.                                                        *)
MCRequest == MCTaskId \X {1}
MCTwice == {t1} \X {1, 2}
MCEither == MCTaskId \X {1, 2}
MCMixed == MCRequest \cup MCTwice

Came == {r \in Request : due[r] # "unissued"}

AtMostTwo == Cardinality(Came) <= 2

(* A pause matters to a task that is resumed, which needs both messages.   *)
PausesAlone ==
  \A id \in TaskId : isActive(id) /\ isPaused(activeTasks[id].state) => Came \subseteq {id} \X {1, 2}

WithoutPause == {"IN_PROGRESS", "COMPLETED"}
WithPause == {"IN_PROGRESS", "INPUT_REQUIRED", "COMPLETED"}

Symmetry == Permutations(MCTaskId)
=============================================================================
