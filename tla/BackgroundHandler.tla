------------------------- MODULE BackgroundHandler -------------------------
(***************************************************************************)
(* DefaultBackgroundTaskHandler.handle: the agent loop that runs a task to *)
(* the end and resolves to the task it leaves.  An action is the code from *)
(* one await to the next; whatever it does after the last await, finalize* *)
(* included, belongs to it.                                                *)
(***************************************************************************)
EXTENDS AgentLoop

VARIABLES
  task,   \* the managed task: its state and its artifacts
  kept    \* accumulatedArtifacts

backgroundVars == <<task, kept>>

Background == handler = "background"

BackgroundInit ==
  /\ task \in [state : {"PENDING", "IN_PROGRESS", "COMPLETED"}, artifacts : {<<>>}]
  /\ kept = <<>>

-----------------------------------------------------------------------------
(* The ends of a run                                                       *)

(* The artifacts drained so far go onto the task with its new state.       *)
Finish(state, artifacts) ==
  /\ task' = transitionTask([task EXCEPT !.artifacts = @ \o artifacts], state)
  /\ kept' = artifacts
  /\ pending' = <<>>
  /\ outcome' = state
  /\ pc' = "done"

finalizeWithMessage(artifacts) == Finish("COMPLETED", artifacts)
finalizeInputRequired(artifacts) == Finish("INPUT_REQUIRED", artifacts)
finalizeFailed(artifacts) == Finish("FAILED", artifacts)
finalizeCancelled(artifacts) == Finish("CANCELLED", artifacts)

(* Faulty variant: what is still in the slot is not drained.               *)
DrainedForgets == kept
Drained == kept \o drainPendingArtifacts

(* Faulty variant: an abort that made the step fail is reported as FAILED. *)
CatchFails == finalizeFailed(Drained)

(* The catch of handle: whatever threw, a cancelled run ends CANCELLED.    *)
Catch == IF signal THEN finalizeCancelled(Drained) ELSE finalizeFailed(Drained)

(* Faulty variant: the loop head does not look at the signal.              *)
LoopHeadBlind(done, t) ==
  IF done = MaxIterations
  THEN finalizeFailed(Drained) /\ UNCHANGED <<iteration>> /\ tracker' = t
  ELSE /\ pc' = "beforeModel" /\ iteration' = done + 1
       /\ tracker' = incrementIteration(t)
       /\ kept' = Drained /\ pending' = <<>>
       /\ UNCHANGED <<task, outcome>>

(* The head of the loop after `done` iterations: the cap, the abort check. *)
LoopHead(done, t) ==
  IF done = MaxIterations
  THEN finalizeFailed(Drained) /\ UNCHANGED <<iteration>> /\ tracker' = t
  ELSE IF signal
  THEN finalizeCancelled(Drained) /\ UNCHANGED <<iteration>> /\ tracker' = t
  ELSE /\ pc' = "beforeModel" /\ iteration' = done + 1
       /\ tracker' = incrementIteration(t)
       /\ kept' = Drained /\ pending' = <<>>
       /\ UNCHANGED <<task, outcome>>

-----------------------------------------------------------------------------
(* handle, from await to await                                             *)

StartBackground ==
  /\ Background /\ pc = "start"
  /\ IF isTerminal(task.state)
     THEN pc' = "done" /\ outcome' = task.state /\ UNCHANGED task
     ELSE pc' = "beforeAgent" /\ task' = transitionTask(task, "IN_PROGRESS")
            /\ UNCHANGED outcome
  /\ UNCHANGED <<handler, toolBox, signal, iteration, conversation, calls,
                 dispatchVars, tracker, late, kept>>

(* runBeforeAgent answers for the agent, throws, or lets the loop begin.   *)
BeforeAgent ==
  /\ Background /\ pc = "beforeAgent"
  /\ \/ finalizeWithMessage(Drained) /\ UNCHANGED <<iteration, tracker>>
     \/ (CallbacksMayThrow /\ Catch /\ UNCHANGED <<iteration, tracker>>)
     \/ LoopHead(0, tracker)
  /\ UNCHANGED <<handler, toolBox, signal, conversation, calls, dispatch, stored, late>>

(* runBeforeModel has no answer of its own: the model is called.           *)
CallModel ==
  /\ Background /\ pc = "beforeModel"
  /\ pc' = "model"
  /\ late' = Late("requests")
  /\ UNCHANGED <<handler, toolBox, signal, iteration, conversation, calls,
                 dispatchVars, tracker, outcome, backgroundVars>>

(* A model callback or the model itself throws, an aborted model included. *)
ModelFails ==
  /\ Background
  /\ pc = "model" \/ (pc = "beforeModel" /\ CallbacksMayThrow)
  /\ Catch
  /\ UNCHANGED <<handler, toolBox, signal, iteration, conversation, calls,
                 dispatch, stored, tracker, late>>

Answering(names) ==
  /\ Background /\ pc \in {"beforeModel", "model"}
  /\ conversation' = Append(conversation, Assistant(names))
  /\ calls' = names

(* No calls: the answer is final, afterAgent may still replace it.         *)
AnswersFinally ==
  /\ Answering(<<>>)
  /\ pc' = "afterAgent"
  /\ kept' = Drained /\ pending' = <<>>
  /\ UNCHANGED <<handler, toolBox, signal, iteration, dispatch, stored, tracker,
                 outcome, late, task>>

(* finalizeCompletedWithCallbacks                                          *)
AfterAgent ==
  /\ Background /\ pc = "afterAgent"
  /\ finalizeWithMessage(Drained) \/ (CallbacksMayThrow /\ Catch)
  /\ UNCHANGED <<handler, toolBox, signal, iteration, conversation, calls,
                 dispatch, stored, tracker, late>>

(* A call of input_required pauses the task; no other call of it is run.   *)
AsksForInput(names) ==
  /\ INPUT_REQUIRED_TOOL \in ToSet(names)
  /\ Answering(names)
  /\ finalizeInputRequired(Drained)
  /\ dispatch' = <<>>
  /\ UNCHANGED <<handler, toolBox, signal, iteration, stored, tracker, late>>

(* Without a toolbox every call is answered as failed, and the loop goes on*)
(* in the same turn.                                                       *)
AnswersWithoutTools(names) ==
  /\ INPUT_REQUIRED_TOOL \notin ToSet(names) /\ names # <<>> /\ ~toolBox
  /\ Background /\ pc \in {"beforeModel", "model"}
  /\ calls' = names
  /\ conversation' = Append(conversation, Assistant(names))
                       \o [i \in DOMAIN names |-> ToolAnswer(Call(i), FALSE)]
  /\ LoopHead(iteration, incrementFailedTools(incrementToolCalls(tracker, Len(names)), Len(names)))
  /\ UNCHANGED <<handler, toolBox, signal, dispatch, stored, late>>

(* Every call of the answer is dispatched at once.                         *)
DispatchTools(names) ==
  /\ INPUT_REQUIRED_TOOL \notin ToSet(names) /\ names # <<>> /\ toolBox
  /\ Answering(names)
  /\ pc' = "tools"
  /\ dispatch' = [i \in DOMAIN names |-> "running"]
  /\ tracker' = incrementToolCalls(tracker, Len(names))
  /\ late' = Late("batches")
  /\ UNCHANGED <<handler, toolBox, signal, iteration, pending, stored, outcome, backgroundVars>>

ModelAnswers ==
  \/ AnswersFinally
  \/ \E names \in Completions :
       AsksForInput(names) \/ AnswersWithoutTools(names) \/ DispatchTools(names)

Rejected == pc = "tools" /\ \E i \in DOMAIN dispatch : dispatch[i] = "threw"

(* Promise.all rejects with the first callback that throws; the other calls*)
(* run on after the handler has returned.                                  *)
BatchRejected ==
  /\ Background /\ Rejected
  /\ Catch
  /\ UNCHANGED <<handler, toolBox, signal, iteration, conversation, calls,
                 dispatch, stored, tracker, late>>

(* Faulty variant: results are taken in the order the tools ended in.      *)
ResultsReversed ==
  [i \in DOMAIN calls |-> LET j == Len(calls) + 1 - i IN ToolAnswer(Call(j), dispatch[j] = "ok")]

(* The answers in the order of the calls.                                  *)
Results == [i \in DOMAIN calls |-> ToolAnswer(Call(i), dispatch[i] = "ok")]

(* Faulty variant: the batch only ends when every tool succeeded.          *)
BatchEndsIfAllOk ==
  /\ Background /\ pc = "tools"
  /\ \A i \in DOMAIN dispatch : dispatch[i] = "ok"
  /\ conversation' = conversation \o Results
  /\ LoopHead(iteration, tracker)
  /\ UNCHANGED <<handler, toolBox, signal, calls, dispatch, stored, late>>

(* All calls have ended: an aborted run stops here, another one answers the*)
(* model in the order of the calls and goes on.                            *)
BatchEnds ==
  /\ Background /\ pc = "tools"
  /\ \A i \in DOMAIN dispatch : dispatch[i] \in {"ok", "failed"}
  /\ IF signal
     THEN finalizeCancelled(Drained) /\ UNCHANGED <<conversation, tracker, iteration>>
     ELSE /\ conversation' = conversation \o Results
          /\ LoopHead(iteration, incrementFailedTools(tracker, Failures))
  /\ UNCHANGED <<handler, toolBox, signal, calls, dispatch, stored, late>>

BackgroundNext ==
  \/ StartBackground \/ BeforeAgent \/ CallModel \/ ModelFails \/ ModelAnswers
  \/ AfterAgent \/ BatchRejected \/ BatchEnds
  \/ (Background /\ ~Rejected /\ ToolStep /\ UNCHANGED backgroundVars)

-----------------------------------------------------------------------------
(* Properties                                                              *)

BackgroundTypeOK ==
  /\ task.state \in TASK_STATE
  /\ ToSet(kept) \subseteq stored

Threw == \E i \in DOMAIN dispatch : dispatch[i] = "threw"

(* No artifact is lost or doubled: what the artifact service stored during *)
(* a run is on the task when the run has ended, however it ended (answer,  *)
(* question, cap, failure or abort), unless a callback threw among         *)
(* concurrent tools and left the others running (drainPendingArtifacts on  *)
(* every path of handle).                                                  *)
ArtifactsKept ==
  Background /\ pc = "done" /\ outcome # "none" =>
    /\ ToSet(task.artifacts) \subseteq stored
    /\ Cardinality(ToSet(task.artifacts)) = Len(task.artifacts)
    /\ ~Threw => ToSet(task.artifacts) = stored

(* The verdict fits the run: CANCELLED only after an abort, and an abort   *)
(* that a check or a throw met is never reported as FAILED; only a handler *)
(* without a toolbox may reach its cap unaware of the abort (the checks of *)
(* signal.aborted in handle and in its catch).                             *)
VerdictFits ==
  Background /\ pc = "done" =>
    /\ outcome = "CANCELLED" => signal
    /\ outcome = "FAILED" /\ toolBox => ~signal
=============================================================================
