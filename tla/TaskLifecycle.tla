--------------------------- MODULE TaskLifecycle ---------------------------
(***************************************************************************)
(* The task state machine of src/src/agent/task.ts.  Every other module    *)
(* moves tasks through these operators, as the code moves them through     *)
(* transitionTask.  A managed task is reduced to what the handlers and the *)
(* storage tell apart: its id, its context, its state and the set of user  *)
(* requests whose message is part of its history.  Timestamps, artifacts   *)
(* and metadata are payload and are left out.                              *)
(***************************************************************************)

TASK_STATE == {"PENDING", "IN_PROGRESS", "INPUT_REQUIRED",
               "COMPLETED", "FAILED", "CANCELLED"}

TERMINAL_STATES == {"COMPLETED", "FAILED", "CANCELLED"}

(* Faulty variant: INPUT_REQUIRED is not treated as a pause.               *)
NoPausedStates == {}

PAUSED_STATES == {"INPUT_REQUIRED"}

VALID_TRANSITIONS ==
  [s \in TASK_STATE |->
     CASE s = "PENDING"        -> {"IN_PROGRESS", "CANCELLED"}
       [] s = "IN_PROGRESS"    -> {"INPUT_REQUIRED"} \cup TERMINAL_STATES
       [] s = "INPUT_REQUIRED" -> {"IN_PROGRESS", "CANCELLED"}
       [] OTHER                -> {}]

isTerminal(state) == state \in TERMINAL_STATES

isPaused(state) == state \in PAUSED_STATES

canTransition(from, to) == to \in VALID_TRANSITIONS[from]

(* A path of legal transitions: what an observer that misses intermediate  *)
(* states may see a task do.                                               *)
Reachable ==
  [s \in TASK_STATE |->
     CASE s = "PENDING"             -> TASK_STATE
       [] s \in TERMINAL_STATES     -> {s}
       [] OTHER                     -> TASK_STATE \ {"PENDING"}]

(* Faulty variant: the wire name of the state instead of the managed one.  *)
createTaskWireState(id, context, messages) ==
  [id |-> id, context |-> context, state |-> "SUBMITTED", messages |-> messages]

createTask(id, context, messages) ==
  [id |-> id, context |-> context, state |-> "PENDING", messages |-> messages]

(* Faulty variant: the task is returned as it was.                         *)
transitionTaskForgets(task, nextState) == task

transitionTask(task, nextState) == [task EXCEPT !.state = nextState]
=============================================================================
