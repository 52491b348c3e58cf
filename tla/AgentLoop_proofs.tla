-------------------------- MODULE AgentLoop_proofs --------------------------
(***************************************************************************)
(* What an abort means to the two default handlers, which verdict a run    *)
(* ends with, what becomes of its artifacts and what conversation the      *)
(* model is sent, for any caps, tools, histories and answers of the model. *)
(***************************************************************************)
EXTENDS MCAgentLoop, SequenceLemmas

-----------------------------------------------------------------------------
(* AbortBounded.  Between a check of the signal and the model call after it*)
(* nothing has been begun late, and between that call and the batch after  *)
(* it only the call.                                                       *)
AbortInvariant ==
  /\ late \in [requests : Nat, batches : Nat] /\ signal \in BOOLEAN
  /\ ~signal => late.requests = 0 /\ late.batches = 0
  /\ pc \in {"start", "beforeAgent", "beforeModel"} => late.requests = 0 /\ late.batches = 0
  /\ pc \in {"model", "dispatch"} => late.batches = 0
  /\ late.requests <= 1 /\ late.batches <= 1

LEMMA BackgroundWindsDown ==
  AbortInvariant /\ BackgroundNext => AbortInvariant'
<1> SUFFICES ASSUME AbortInvariant, BackgroundNext PROVE AbortInvariant'
  OBVIOUS
<1> USE DEF AbortInvariant
<1>1. CASE StartBackground
  BY <1>1 DEF StartBackground
<1>2. CASE BeforeAgent
  BY <1>2 DEF BeforeAgent, finalizeWithMessage, Catch, CatchFails, LoopHead, finalizeFailed,
              finalizeCancelled, Finish
<1>3. CASE CallModel
  BY <1>3 DEF CallModel, Late
<1>4. CASE ModelFails
  BY <1>4 DEF ModelFails, Catch, finalizeFailed, finalizeCancelled, Finish
<1>5. CASE AnswersFinally
  BY <1>5 DEF AnswersFinally, Answering
<1>6. ASSUME NEW names \in Completions, AsksForInput(names) PROVE AbortInvariant'
  BY <1>6 DEF AsksForInput, Answering, finalizeInputRequired, Finish
<1>7. ASSUME NEW names \in Completions, AnswersWithoutTools(names) PROVE AbortInvariant'
  BY <1>7 DEF AnswersWithoutTools, LoopHead, finalizeFailed, finalizeCancelled, Finish
<1>8. ASSUME NEW names \in Completions, DispatchTools(names) PROVE AbortInvariant'
  BY <1>8 DEF DispatchTools, Answering, Late
<1>9. CASE AfterAgent
  BY <1>9 DEF AfterAgent, finalizeWithMessage, Catch, finalizeFailed, finalizeCancelled, Finish
<1>10. CASE BatchRejected
  BY <1>10 DEF BatchRejected, Catch, finalizeFailed, finalizeCancelled, Finish
<1>11. CASE BatchEnds
  BY <1>11 DEF BatchEnds, LoopHead, finalizeFailed, finalizeCancelled, Finish
<1>12. CASE ToolStep
  BY <1>12 DEF ToolStep
<1> QED BY <1>1, <1>2, <1>3, <1>4, <1>5, <1>6, <1>7, <1>8, <1>9, <1>10, <1>11, <1>12
        DEF BackgroundNext, ModelAnswers

LEMMA StreamingWindsDown ==
  AbortInvariant /\ StreamingNext => AbortInvariant'
<1> SUFFICES ASSUME AbortInvariant, StreamingNext PROVE AbortInvariant'
  OBVIOUS
<1> USE DEF AbortInvariant, At, Ends, Yields
<1>1. CASE Pull
  BY <1>1 DEF Pull
<1>2. CASE StartStreaming
  BY <1>2 DEF StartStreaming
<1>3. CASE CallbackThrows
  BY <1>3 DEF CallbackThrows
<1>4. CASE StreamBeforeAgent
  BY <1>4 DEF StreamBeforeAgent
<1>5. CASE Iterate
  BY <1>5 DEF Iterate
<1>6. CASE StreamCallsModel
  BY <1>6 DEF StreamCallsModel, Late
<1>7. CASE StreamModelFails
  BY <1>7 DEF StreamModelFails
<1>8. CASE StreamAnswersFinally
  BY <1>8 DEF StreamAnswersFinally, StreamAnswering
<1>9. ASSUME NEW names \in Completions, StreamAsksForInput(names) PROVE AbortInvariant'
  BY <1>9 DEF StreamAsksForInput, StreamAnswering
<1>10. ASSUME NEW names \in Completions, StreamAnswersWithoutTools(names) PROVE AbortInvariant'
  BY <1>10 DEF StreamAnswersWithoutTools
<1>11. ASSUME NEW names \in Completions, StreamAnnouncesTools(names) PROVE AbortInvariant'
  BY <1>11 DEF StreamAnnouncesTools, StreamAnswering
<1>12. CASE StreamAfterAgent
  BY <1>12 DEF StreamAfterAgent
<1>13. CASE StreamDispatches
  BY <1>13 DEF StreamDispatches, Late
<1>14. CASE AwaitTool
  BY <1>14 DEF AwaitTool
<1>15. CASE ToolAnswered
  BY <1>15 DEF ToolAnswered
<1>16. CASE StreamBatchEnds
  BY <1>16 DEF StreamBatchEnds
<1>17. CASE StreamReturnsAtLast
  BY <1>17 DEF StreamReturnsAtLast
<1>18. CASE CloseGenerator
  BY <1>18 DEF CloseGenerator
<1>19. CASE UnhandledRejection
  BY <1>19 DEF UnhandledRejection
<1>20. CASE ToolStep
  BY <1>20 DEF ToolStep
<1> QED BY <1>1, <1>2, <1>3, <1>4, <1>5, <1>6, <1>7, <1>8, <1>9, <1>10, <1>11, <1>12, <1>13,
           <1>14, <1>15, <1>16, <1>17, <1>18, <1>19, <1>20
        DEF StreamingNext, StreamModelAnswers

(* After the abort a handler begins at most one more model call and one    *)
(* more batch of tools.                                                    *)
THEOREM AbortsWindDown == Spec => []AbortBounded
<1>1. Init => AbortInvariant
  <2> SUFFICES ASSUME Init PROVE AbortInvariant
    OBVIOUS
  <2>1. signal \in BOOLEAN /\ late = [requests |-> 0, batches |-> 0]
    BY Zenon DEF Init, AgentInit
  <2>2. late \in [requests : Nat, batches : Nat] /\ late.requests = 0 /\ late.batches = 0
    BY <2>1
  <2> QED BY <2>1, <2>2 DEF AbortInvariant
<1>2. AbortInvariant /\ [Next]_vars => AbortInvariant'
  <2> SUFFICES ASSUME AbortInvariant, [Next]_vars PROVE AbortInvariant'
    OBVIOUS
  <2>1. CASE AbortRun
    BY <2>1 DEF AbortRun, Abort, AbortInvariant
  <2>2. CASE BackgroundNext
    BY <2>2, BackgroundWindsDown
  <2>3. CASE StreamingNext
    BY <2>3, StreamingWindsDown
  <2>4. CASE UNCHANGED vars
    BY <2>4 DEF vars, agentVars, AbortInvariant
  <2> QED BY <2>1, <2>2, <2>3, <2>4 DEF Next
<1>3. AbortInvariant => AbortBounded
  BY DEF AbortInvariant, AbortBounded
<1> QED BY <1>1, <1>2, <1>3, PTL DEF Spec
-----------------------------------------------------------------------------
(* VerdictFits.                                                            *)

LEMMA StreamingStaysStreaming == StreamingNext => Streaming /\ UNCHANGED handler
<1> SUFFICES ASSUME StreamingNext PROVE Streaming /\ UNCHANGED handler
  OBVIOUS
<1>1. CASE StreamModelAnswers
  BY <1>1 DEF StreamModelAnswers, StreamAnswersFinally, StreamAsksForInput,
              StreamAnswersWithoutTools, StreamAnnouncesTools, StreamAnswering, At
<1>2. CASE Pull \/ StartStreaming \/ CallbackThrows \/ StreamBeforeAgent \/ Iterate \/ StreamCallsModel
  BY <1>2 DEF Pull, StartStreaming, CallbackThrows, StreamBeforeAgent, Iterate, StreamCallsModel, At
<1>3. CASE StreamModelFails \/ StreamAfterAgent \/ StreamDispatches \/ AwaitTool \/ ToolAnswered
  BY <1>3 DEF StreamModelFails, StreamAfterAgent, StreamDispatches, AwaitTool, ToolAnswered, At
<1>4. CASE StreamBatchEnds \/ StreamReturnsAtLast \/ CloseGenerator \/ UnhandledRejection
  BY <1>4 DEF StreamBatchEnds, StreamReturnsAtLast, CloseGenerator, UnhandledRejection, At
<1>5. CASE Streaming /\ ToolStep
  BY <1>5 DEF ToolStep
<1> QED BY <1>1, <1>2, <1>3, <1>4, <1>5 DEF StreamingNext

(* A run starts on a task that has not been cancelled and has not failed.  *)
VerdictInvariant ==
  /\ Background /\ pc = "start" => task.state \notin {"CANCELLED", "FAILED"}
  /\ VerdictFits

LEMMA BackgroundFits ==
  ASSUME VerdictInvariant, BackgroundNext
  PROVE  VerdictInvariant'
<1> USE AgentConstants DEF AgentConstants, VerdictInvariant, VerdictFits, Background
<1>1. CASE StartBackground
  BY <1>1 DEF StartBackground
<1>2. CASE BeforeAgent
  BY <1>2 DEF BeforeAgent, finalizeWithMessage, Catch, LoopHead, finalizeFailed,
              finalizeCancelled, Finish
<1>3. CASE CallModel
  BY <1>3 DEF CallModel
<1>4. CASE ModelFails
  BY <1>4 DEF ModelFails, Catch, finalizeFailed, finalizeCancelled, Finish
<1>5. CASE AnswersFinally
  BY <1>5 DEF AnswersFinally, Answering
<1>6. ASSUME NEW names \in Completions, AsksForInput(names) PROVE VerdictInvariant'
  BY <1>6 DEF AsksForInput, Answering, finalizeInputRequired, Finish
<1>7. ASSUME NEW names \in Completions, AnswersWithoutTools(names) PROVE VerdictInvariant'
  BY <1>7 DEF AnswersWithoutTools, LoopHead, finalizeFailed, finalizeCancelled, Finish
<1>8. ASSUME NEW names \in Completions, DispatchTools(names) PROVE VerdictInvariant'
  BY <1>8 DEF DispatchTools, Answering
<1>9. CASE AfterAgent
  BY <1>9 DEF AfterAgent, finalizeWithMessage, Catch, finalizeFailed, finalizeCancelled, Finish
<1>10. CASE BatchRejected
  BY <1>10 DEF BatchRejected, Catch, finalizeFailed, finalizeCancelled, Finish
<1>11. CASE BatchEnds
  BY <1>11 DEF BatchEnds, LoopHead, finalizeFailed, finalizeCancelled, Finish
<1>12. CASE ToolStep /\ UNCHANGED backgroundVars
  BY <1>12 DEF ToolStep, backgroundVars
<1> QED BY <1>1, <1>2, <1>3, <1>4, <1>5, <1>6, <1>7, <1>8, <1>9, <1>10, <1>11, <1>12
        DEF BackgroundNext, ModelAnswers

(* CANCELLED is only said of a run that was aborted, and a run with a      *)
(* toolbox that was aborted is never reported as FAILED.                   *)
THEOREM VerdictsFit == Spec => []VerdictFits
<1>1. Init => VerdictInvariant
  <2> SUFFICES ASSUME Init PROVE VerdictInvariant
    OBVIOUS
  <2>1. pc = "start" /\ BackgroundInit
    BY Zenon DEF Init, AgentInit
  <2>2. task.state \in {"PENDING", "IN_PROGRESS", "COMPLETED"}
    BY <2>1 DEF BackgroundInit
  <2> QED BY <2>1, <2>2 DEF VerdictInvariant, VerdictFits
<1>2. VerdictInvariant /\ [Next]_vars => VerdictInvariant'
  <2> SUFFICES ASSUME VerdictInvariant, [Next]_vars PROVE VerdictInvariant'
    OBVIOUS
  <2>1. CASE AbortRun
    BY <2>1 DEF AbortRun, Abort, backgroundVars, VerdictInvariant, VerdictFits, Background
  <2>2. CASE BackgroundNext
    BY <2>2, BackgroundFits
  <2>3. CASE StreamingNext
    BY <2>3, StreamingStaysStreaming DEF Streaming, Background, VerdictInvariant, VerdictFits
  <2>4. CASE UNCHANGED vars
    BY <2>4 DEF vars, agentVars, backgroundVars, VerdictInvariant, VerdictFits, Background
  <2> QED BY <2>1, <2>2, <2>3, <2>4 DEF Next
<1>3. VerdictInvariant => VerdictFits
  BY DEF VerdictInvariant
<1> QED BY <1>1, <1>2, <1>3, PTL DEF Spec
-----------------------------------------------------------------------------
(* ArtifactsKept.                                                          *)

Artifacts == Nat \X Nat

(* The sequence lists the elements of the set, each once.                  *)
Lists(seq, set) ==
  /\ seq \in Seq(Artifacts)
  /\ \A i \in 1 .. Len(seq) : seq[i] \in set
  /\ \A a \in set : \E i \in 1 .. Len(seq) : seq[i] = a
  /\ \A i, j \in 1 .. Len(seq) : seq[i] = seq[j] => i = j

LEMMA ListsAppend ==
  ASSUME NEW set, NEW seq, NEW a \in Artifacts, Lists(seq, set), a \notin set
  PROVE  Lists(Append(seq, a), set \cup {a})
BY DEF Lists

(* What two sequences list together does not change when the second is     *)
(* moved behind the first.                                                 *)
LEMMA ListsConcat ==
  ASSUME NEW set, NEW seq \in Seq(Artifacts), NEW more \in Seq(Artifacts),
         Lists(seq \o more, set)
  PROVE  /\ Lists((seq \o more) \o <<>>, set)
         /\ \A a \in Artifacts : a \notin set => Lists(seq \o Append(more, a), set \cup {a})
<1>1. (seq \o more) \o <<>> = seq \o more
  OBVIOUS
<1>2. \A a \in Artifacts : seq \o Append(more, a) = Append(seq \o more, a)
  OBVIOUS
<1>3. \A a \in Artifacts : a \notin set => Lists(Append(seq \o more, a), set \cup {a})
  BY ListsAppend
<1> QED BY <1>1, <1>2, <1>3

Dispatched == {"running", "ranOk", "ranFailed", "ok", "failed", "threw"}

(* Until it ends, a run holds every stored artifact either in what it has  *)
(* drained or in the slot; calls that may yet store one belong to the      *)
(* current iteration and have stored nothing, and after the end there are  *)
(* such calls only if one of their batch threw.                            *)
ArtifactsInvariant ==
  Background =>
    /\ iteration \in Nat /\ stored \subseteq (0 .. iteration) \X Nat
    /\ dispatch \in Seq(Dispatched)
    /\ kept \in Seq(Artifacts) /\ pending \in Seq(Artifacts)
    /\ \A i \in 1 .. Len(dispatch) : dispatch[i] = "running" => Call(i) \notin stored
    /\ pc # "tools" => Threw \/ \A i \in 1 .. Len(dispatch) : dispatch[i] \in {"ok", "failed"}
    /\ Threw => pc \in {"tools", "done"}
    /\ pc = "start" => stored = {}
    /\ pc \in {"start", "beforeAgent"} => iteration = 0
    /\ pc \in {"beforeModel", "model"} => \A i \in Nat : Call(i) \notin stored
    /\ pc # "done" => Lists(kept \o pending, stored) /\ task.artifacts = <<>>
    /\ pc = "done" =>
         /\ task.artifacts \in Seq(Artifacts) /\ ToSet(task.artifacts) \subseteq stored
         /\ \A i, j \in 1 .. Len(task.artifacts) : task.artifacts[i] = task.artifacts[j] => i = j
         /\ ~Threw => ToSet(task.artifacts) = stored
    /\ task \in [state : TASK_STATE, artifacts : Seq(Artifacts)]

(* An end of a run puts all it holds on the task.                          *)
LEMMA FinishKeeps ==
  ASSUME ArtifactsInvariant, Background, pc # "done", NEW state \in TASK_STATE,
         Finish(state, Drained), UNCHANGED <<handler, iteration, stored>>,
         \/ dispatch' = <<>>
         \/ /\ dispatch' = dispatch
            /\ Threw \/ \A i \in 1 .. Len(dispatch) : dispatch[i] \in {"ok", "failed"}
  PROVE  ArtifactsInvariant'
<1>1. Drained = kept \o pending /\ Lists(Drained, stored) /\ Drained \in Seq(Artifacts)
  BY DEF Drained, drainPendingArtifacts, ArtifactsInvariant, Lists
<1>2. task' = [state |-> state, artifacts |-> Drained]
  <2>1. task \in [state : TASK_STATE, artifacts : Seq(Artifacts)] /\ task.artifacts = <<>>
    BY DEF ArtifactsInvariant
  <2>2. <<>> \o Drained = Drained
    BY <1>1
  <2>3. task' = transitionTask([task EXCEPT !.artifacts = @ \o Drained], state)
    BY DEF Finish
  <2> QED BY <2>1, <2>2, <2>3 DEF transitionTask
<1>3. /\ ToSet(Drained) = stored
      /\ \A i, j \in 1 .. Len(Drained) : Drained[i] = Drained[j] => i = j
  <2>1. DOMAIN Drained = 1 .. Len(Drained)
    BY <1>1
  <2>2. ToSet(Drained) = {Drained[i] : i \in 1 .. Len(Drained)}
    BY <2>1 DEF ToSet
  <2>3. \A a : a \in ToSet(Drained) <=> a \in stored
    BY <1>1, <2>2 DEF Lists
  <2> QED BY <1>1, <2>3 DEF Lists
<1>4. pc' = "done" /\ kept' = Drained /\ pending' = <<>>
  BY DEF Finish
<1>5. /\ dispatch' \in Seq(Dispatched)
      /\ Threw' \/ \A i \in 1 .. Len(dispatch') : dispatch'[i] \in {"ok", "failed"}
  BY DEF ArtifactsInvariant, Threw
<1>6. /\ iteration' \in Nat /\ stored' \subseteq (0 .. iteration') \X Nat
      /\ \A i \in 1 .. Len(dispatch') : dispatch'[i] = "running" => Call(i)' \notin stored'
  BY DEF ArtifactsInvariant, Call
<1>7. /\ task'.artifacts = Drained /\ stored' = stored
      /\ task' \in [state : TASK_STATE, artifacts : Seq(Artifacts)]
  BY <1>1, <1>2
<1>8. pending' \in Seq(Artifacts) /\ kept' \in Seq(Artifacts)
  BY <1>1, <1>4
<1> QED BY <1>1, <1>3, <1>4, <1>5, <1>6, <1>7, <1>8 DEF ArtifactsInvariant

(* The next iteration starts with everything drained.                      *)
LEMMA LoopHeadKeeps ==
  ASSUME ArtifactsInvariant, Background, pc # "done", NEW t, LoopHead(iteration, t),
         UNCHANGED <<handler, stored, dispatch>>, ~Threw,
         \A i \in 1 .. Len(dispatch) : dispatch[i] \in {"ok", "failed"}
  PROVE  ArtifactsInvariant'
<1>1. CASE iteration = MaxIterations \/ signal
  <2>1. UNCHANGED iteration /\ \E state \in TASK_STATE : Finish(state, Drained)
    BY <1>1 DEF LoopHead, finalizeFailed, finalizeCancelled, TASK_STATE
  <2> QED BY <2>1, FinishKeeps
<1>2. CASE ~(iteration = MaxIterations \/ signal)
  <2>1. /\ pc' = "beforeModel" /\ iteration' = iteration + 1
        /\ kept' = kept \o pending /\ pending' = <<>> /\ UNCHANGED task
    BY <1>2 DEF LoopHead, Drained, drainPendingArtifacts
  <2>2. /\ iteration \in Nat /\ stored \subseteq (0 .. iteration) \X Nat
        /\ kept \in Seq(Artifacts) /\ pending \in Seq(Artifacts) /\ Lists(kept \o pending, stored)
        /\ dispatch \in Seq(Dispatched) /\ task.artifacts = <<>>
        /\ task \in [state : TASK_STATE, artifacts : Seq(Artifacts)]
    BY DEF ArtifactsInvariant
  <2>3. Lists(kept' \o pending', stored')
    BY <2>1, <2>2, ListsConcat
  <2>4. /\ iteration' \in Nat /\ stored' \subseteq (0 .. iteration') \X Nat
        /\ \A i \in Nat : Call(i)' \notin stored'
    BY <2>1, <2>2 DEF Call
  <2>5. kept' \in Seq(Artifacts) /\ pending' \in Seq(Artifacts)
    BY <2>1, <2>2
  <2>6. ~Threw'
    BY DEF Threw
  <2> QED BY <2>1, <2>2, <2>3, <2>4, <2>5, <2>6 DEF ArtifactsInvariant
<1> QED BY <1>1, <1>2

(* A tool only moves while its batch is awaited, or after another one of   *)
(* the batch has thrown.                                                   *)
LEMMA ToolStepKeeps ==
  ASSUME ArtifactsInvariant, Background, ~Rejected, ToolStep, UNCHANGED backgroundVars
  PROVE  ArtifactsInvariant'
<1> USE DEF ArtifactsInvariant, Background
<1>1. PICK i \in DOMAIN dispatch : RunTool(i) \/ AfterTool(i)
  BY DEF ToolStep
<1>2. /\ UNCHANGED <<handler, pc, iteration, task, kept>>
      /\ dispatch \in Seq(Dispatched) /\ i \in 1 .. Len(dispatch) /\ iteration \in Nat
  BY DEF ToolStep, backgroundVars
<1>3. /\ dispatch[i] \in {"running", "ranOk", "ranFailed"}
      /\ \E result \in Dispatched \ {"running"} : dispatch' = [dispatch EXCEPT ![i] = result]
      /\ \/ UNCHANGED <<pending, stored>>
         \/ /\ dispatch[i] = "running"
            /\ stored' = stored \cup {Call(i)} /\ pending' = Append(pending, Call(i))
  BY <1>1, <1>2 DEF RunTool, AfterTool, createArtifact, executeTool, Dispatched
<1>4. /\ dispatch' \in Seq(Dispatched) /\ Len(dispatch') = Len(dispatch)
      /\ dispatch'[i] # "running"
      /\ \A j \in 1 .. Len(dispatch) : j # i => dispatch'[j] = dispatch[j]
  BY <1>2, <1>3
<1>5. Call(i) \in Artifacts /\ Call(i) \in (0 .. iteration) \X Nat
      /\ \A j \in 1 .. Len(dispatch) : j # i => Call(j) # Call(i)
  BY <1>2 DEF Call, Artifacts
<1>6. \A j \in Nat : Call(j)' = Call(j)
  BY <1>2 DEF Call
<1>7. /\ iteration' \in Nat /\ stored' \subseteq (0 .. iteration') \X Nat
      /\ \A j \in 1 .. Len(dispatch') : dispatch'[j] = "running" => Call(j)' \notin stored'
  <2>1. /\ stored \subseteq (0 .. iteration) \X Nat
        /\ \A j \in 1 .. Len(dispatch) : dispatch[j] = "running" => Call(j) \notin stored
    OBVIOUS
  <2>2. stored' \subseteq stored \cup {Call(i)}
    BY <1>3
  <2>3. stored' \subseteq (0 .. iteration) \X Nat
    BY <2>1, <2>2, <1>5
  <2>4. ASSUME NEW j \in 1 .. Len(dispatch'), dispatch'[j] = "running" PROVE Call(j)' \notin stored'
    <3>1. j # i /\ j \in 1 .. Len(dispatch) /\ dispatch[j] = "running"
      BY <1>4, <2>4
    <3>2. Call(j) \notin stored /\ Call(j) # Call(i) /\ Call(j)' = Call(j)
      BY <1>5, <1>6, <2>1, <3>1
    <3> QED BY <2>2, <3>2
  <2> QED BY <1>2, <2>3, <2>4
<1>8. kept' \in Seq(Artifacts) /\ pending' \in Seq(Artifacts)
  <2>1. kept \in Seq(Artifacts) /\ pending \in Seq(Artifacts)
    OBVIOUS
  <2>2. Append(pending, Call(i)) \in Seq(Artifacts)
    BY <1>5, <2>1
  <2> QED BY <1>2, <1>3, <2>1, <2>2
<1>9. (pc = "tools" /\ ~Threw) \/ (pc = "done" /\ Threw)
  BY <1>2, <1>3 DEF Rejected, Threw
<1>10. CASE pc = "tools"
  <2>1. Lists(kept' \o pending', stored')
    <3>1. kept \in Seq(Artifacts) /\ pending \in Seq(Artifacts) /\ Lists(kept \o pending, stored)
      BY <1>10
    <3>2. CASE UNCHANGED <<pending, stored>>
      BY <1>2, <3>1, <3>2
    <3>3. CASE stored' = stored \cup {Call(i)} /\ pending' = Append(pending, Call(i)) /\ dispatch[i] = "running"
      <4>1. Call(i) \notin stored
        BY <1>2, <3>3
      <4> QED BY <1>2, <1>5, <3>1, <3>3, <4>1, ListsConcat
    <3> QED BY <1>3, <3>2, <3>3
  <2> QED BY <1>2, <1>4, <1>7, <1>8, <1>10, <2>1
<1>11. CASE pc = "done" /\ Threw
  <2>1. Threw'
    BY <1>2, <1>3, <1>4, <1>11 DEF Threw
  <2>2. ToSet(task'.artifacts) \subseteq stored'
    BY <1>2, <1>3, <1>11
  <2> QED BY <1>2, <1>4, <1>7, <1>8, <1>11, <2>1, <2>2
<1> QED BY <1>9, <1>10, <1>11

(* The actions that leave the artifacts where they are.                    *)
LEMMA StartKeeps ==
  ArtifactsInvariant /\ Background /\ StartBackground => ArtifactsInvariant'
<1> SUFFICES ASSUME ArtifactsInvariant, Background, StartBackground PROVE ArtifactsInvariant'
  OBVIOUS
<1> USE DEF ArtifactsInvariant, Background
<1>1. /\ pc = "start" /\ stored = {} /\ iteration = 0 /\ task.artifacts = <<>> /\ ~Threw
      /\ UNCHANGED <<handler, iteration, dispatch, pending, stored, kept>>
  BY DEF StartBackground, dispatchVars
<1>2. /\ task' \in [state : TASK_STATE, artifacts : Seq(Artifacts)] /\ task'.artifacts = <<>>
  BY <1>1 DEF StartBackground, transitionTask, TASK_STATE
<1>3. pc' \in {"done", "beforeAgent"}
  BY DEF StartBackground
<1>4. ~Threw' /\ ToSet(task'.artifacts) = {}
  BY <1>1, <1>2 DEF Threw, ToSet
<1> QED BY <1>1, <1>2, <1>3, <1>4 DEF Call

LEMMA CallModelKeeps ==
  ArtifactsInvariant /\ Background /\ CallModel => ArtifactsInvariant'
BY DEF ArtifactsInvariant, Background, CallModel, backgroundVars, dispatchVars, Call, Threw

LEMMA AnswersFinallyKeeps ==
  ArtifactsInvariant /\ Background /\ AnswersFinally => ArtifactsInvariant'
<1> SUFFICES ASSUME ArtifactsInvariant, Background, AnswersFinally PROVE ArtifactsInvariant'
  OBVIOUS
<1> USE DEF ArtifactsInvariant, Background
<1>1. /\ pc \in {"beforeModel", "model"} /\ pc' = "afterAgent"
      /\ kept' = kept \o pending /\ pending' = <<>>
      /\ UNCHANGED <<handler, iteration, dispatch, stored, task>>
  BY DEF AnswersFinally, Answering, Drained, drainPendingArtifacts
<1>2. Lists(kept' \o pending', stored') /\ kept' \in Seq(Artifacts)
  BY <1>1, ListsConcat
<1> QED BY <1>1, <1>2 DEF Call, Threw

LEMMA DispatchKeeps ==
  ASSUME NEW names \in Completions, ArtifactsInvariant, Background, DispatchTools(names)
  PROVE  ArtifactsInvariant'
<1> USE DEF ArtifactsInvariant, Background
<1>1. /\ pc \in {"beforeModel", "model"} /\ pc' = "tools"
      /\ dispatch' = [i \in DOMAIN names |-> "running"]
      /\ UNCHANGED <<handler, iteration, pending, stored, task, kept>>
  BY DEF DispatchTools, Answering, backgroundVars
<1>2. \E n \in Nat : DOMAIN names = 1 .. n
  BY AgentConstants DEF AgentConstants, Completions, BoundedSeq, SeqOf
<1>3. dispatch' \in Seq(Dispatched) /\ \A i \in 1 .. Len(dispatch') : dispatch'[i] = "running" /\ i \in Nat
  BY <1>1, <1>2 DEF Dispatched
<1>4. \A i \in Nat : Call(i)' = Call(i) /\ Call(i) \notin stored
  BY <1>1 DEF Call
<1>5. ~Threw'
  BY <1>1 DEF Threw
<1> QED BY <1>1, <1>3, <1>4, <1>5

LEMMA BackgroundKeepsArtifacts ==
  ASSUME ArtifactsInvariant, Background, BackgroundNext
  PROVE  ArtifactsInvariant'
<1> DEFINE AllSettled == \A i \in 1 .. Len(dispatch) : dispatch[i] \in {"ok", "failed"}
<1>1. pc # "tools" => Threw \/ AllSettled
  BY DEF ArtifactsInvariant
<1>2. Threw => pc \in {"tools", "done"}
  BY DEF ArtifactsInvariant
<1>3. {"COMPLETED", "INPUT_REQUIRED", "FAILED", "CANCELLED"} \subseteq TASK_STATE
  BY DEF TASK_STATE
<1>4. Catch => \E state \in TASK_STATE : Finish(state, Drained)
  BY <1>3 DEF Catch, finalizeFailed, finalizeCancelled
<1>5. finalizeWithMessage(Drained) => \E state \in TASK_STATE : Finish(state, Drained)
  BY <1>3 DEF finalizeWithMessage
<1>6. CASE StartBackground
  BY <1>6, StartKeeps
<1>7. CASE BeforeAgent
  <2>1. /\ pc = "beforeAgent" /\ iteration = 0 /\ ~Threw /\ AllSettled
        /\ UNCHANGED <<handler, stored, dispatch>>
    BY <1>1, <1>2, <1>7 DEF BeforeAgent, ArtifactsInvariant
  <2>2. CASE LoopHead(0, tracker)
    BY <2>1, <2>2, LoopHeadKeeps
  <2>3. CASE UNCHANGED iteration /\ \E state \in TASK_STATE : Finish(state, Drained)
    BY <2>1, <2>3, FinishKeeps
  <2> QED BY <1>4, <1>5, <1>7, <2>2, <2>3 DEF BeforeAgent
<1>8. CASE CallModel
  BY <1>8, CallModelKeeps
<1>9. CASE ModelFails
  <2>1. pc \in {"model", "beforeModel"} /\ UNCHANGED <<handler, iteration, stored, dispatch>>
    BY <1>9 DEF ModelFails
  <2> QED BY <1>1, <1>2, <1>4, <1>9, <2>1, FinishKeeps DEF ModelFails
<1>10. CASE AnswersFinally
  BY <1>10, AnswersFinallyKeeps
<1>11. ASSUME NEW names \in Completions, AsksForInput(names) PROVE ArtifactsInvariant'
  <2>1. /\ pc \in {"model", "beforeModel"} /\ dispatch' = <<>>
        /\ UNCHANGED <<handler, iteration, stored>>
        /\ Finish("INPUT_REQUIRED", Drained)
    BY <1>11 DEF AsksForInput, Answering, finalizeInputRequired
  <2> QED BY <1>3, <2>1, FinishKeeps
<1>12. ASSUME NEW names \in Completions, AnswersWithoutTools(names) PROVE ArtifactsInvariant'
  <2>1. pc \in {"model", "beforeModel"} /\ UNCHANGED <<handler, stored, dispatch>>
    BY <1>12 DEF AnswersWithoutTools
  <2>2. PICK t : LoopHead(iteration, t)
    BY <1>12 DEF AnswersWithoutTools
  <2> QED BY <1>1, <1>2, <2>1, <2>2, LoopHeadKeeps
<1>13. ASSUME NEW names \in Completions, DispatchTools(names) PROVE ArtifactsInvariant'
  BY <1>13, DispatchKeeps
<1>14. CASE AfterAgent
  <2>1. pc = "afterAgent" /\ UNCHANGED <<handler, iteration, stored, dispatch>>
    BY <1>14 DEF AfterAgent
  <2> QED BY <1>1, <1>2, <1>4, <1>5, <1>14, <2>1, FinishKeeps DEF AfterAgent
<1>15. CASE BatchRejected
  <2>1. pc = "tools" /\ Threw /\ UNCHANGED <<handler, iteration, stored, dispatch>>
    BY <1>15 DEF BatchRejected, Rejected, Threw
  <2> QED BY <1>4, <1>15, <2>1, FinishKeeps DEF BatchRejected
<1>16. CASE BatchEnds
  <2>1. pc = "tools" /\ AllSettled /\ ~Threw /\ UNCHANGED <<handler, stored, dispatch>>
    BY <1>16 DEF BatchEnds, Threw, ArtifactsInvariant
  <2>2. CASE signal
    <3>1. Finish("CANCELLED", Drained) /\ UNCHANGED iteration
      BY <1>16, <2>2 DEF BatchEnds, finalizeCancelled
    <3> QED BY <1>3, <2>1, <3>1, FinishKeeps
  <2>3. CASE ~signal
    <3>1. PICK t : LoopHead(iteration, t)
      BY <1>16, <2>3 DEF BatchEnds
    <3> QED BY <2>1, <3>1, LoopHeadKeeps
  <2> QED BY <2>2, <2>3
<1>17. CASE ~Rejected /\ ToolStep /\ UNCHANGED backgroundVars
  BY <1>17, ToolStepKeeps
<1> QED BY <1>6, <1>7, <1>8, <1>9, <1>10, <1>11, <1>12, <1>13, <1>14, <1>15, <1>16, <1>17
        DEF BackgroundNext, ModelAnswers

LEMMA ArtifactsAlways == Spec => []ArtifactsInvariant
<1>1. Init => ArtifactsInvariant
  <2> SUFFICES ASSUME Init PROVE ArtifactsInvariant
    OBVIOUS
  <2>1. /\ pc = "start" /\ iteration = 0 /\ dispatch = <<>> /\ pending = <<>> /\ stored = {}
        /\ BackgroundInit
    BY Zenon DEF Init, AgentInit
  <2>2. kept = <<>> /\ task.artifacts = <<>> /\ task \in [state : TASK_STATE, artifacts : Seq(Artifacts)]
    <3>1. PICK s \in TASK_STATE : task = [state |-> s, artifacts |-> <<>>]
      BY <2>1 DEF BackgroundInit, TASK_STATE
    <3>2. <<>> \in Seq(Artifacts)
      OBVIOUS
    <3> QED BY <2>1, <3>1, <3>2 DEF BackgroundInit
  <2>3. ~Threw /\ dispatch \in Seq(Dispatched) /\ Len(dispatch) = 0
    BY <2>1 DEF Threw
  <2>4. Lists(kept \o pending, stored)
    BY <2>1, <2>2 DEF Lists
  <2> QED BY <2>1, <2>2, <2>3, <2>4 DEF ArtifactsInvariant
<1>2. ArtifactsInvariant /\ [Next]_vars => ArtifactsInvariant'
  <2> SUFFICES ASSUME ArtifactsInvariant, [Next]_vars PROVE ArtifactsInvariant'
    OBVIOUS
  <2>1. CASE UNCHANGED <<handler, iteration, dispatch, pc, stored, pending, kept, task>>
    BY <2>1 DEF ArtifactsInvariant, Background, Call, Threw
  <2>2. AbortRun => UNCHANGED <<handler, iteration, dispatch, pc, stored, pending, kept, task>>
    BY DEF AbortRun, Abort, backgroundVars, dispatchVars
  <2>3. UNCHANGED vars => UNCHANGED <<handler, iteration, dispatch, pc, stored, pending, kept, task>>
    BY DEF vars, agentVars, backgroundVars, dispatchVars
  <2>4. CASE BackgroundNext /\ Background
    BY <2>4, BackgroundKeepsArtifacts
  <2>5. BackgroundNext => Background
    BY DEF BackgroundNext, StartBackground, BeforeAgent, CallModel, ModelFails, ModelAnswers,
           AnswersFinally, AsksForInput, AnswersWithoutTools, DispatchTools, Answering, AfterAgent,
           BatchRejected, BatchEnds
  <2>6. CASE StreamingNext
    BY <2>6, StreamingStaysStreaming DEF Streaming, ArtifactsInvariant, Background
  <2> QED BY <2>1, <2>2, <2>3, <2>4, <2>5, <2>6 DEF Next
<1> QED BY <1>1, <1>2, PTL DEF Spec

(* The background handler doubles no artifact, and loses none it stored    *)
(* unless a call of the same batch threw.                                  *)
THEOREM ArtifactsStay == Spec => []ArtifactsKept
<1>1. ArtifactsInvariant => ArtifactsKept
  <2> SUFFICES ASSUME ArtifactsInvariant, Background, pc = "done", outcome # "none"
               PROVE  /\ ToSet(task.artifacts) \subseteq stored
                      /\ Cardinality(ToSet(task.artifacts)) = Len(task.artifacts)
                      /\ ~Threw => ToSet(task.artifacts) = stored
    BY DEF ArtifactsKept
  <2> QED BY OnceEach DEF ArtifactsInvariant
<1> QED BY <1>1, ArtifactsAlways, PTL
-----------------------------------------------------------------------------
(* TypeOK.                                                                 *)

(* Artifacts are only stored by dispatched calls, and calls are only       *)
(* dispatched in an iteration that has begun.                              *)
TypeInvariant ==
  /\ handler \in {"background", "streaming"} /\ toolBox \in BOOLEAN /\ signal \in BOOLEAN
  /\ iteration \in 0 .. MaxIterations
  /\ calls \in Seq(CalledNames) /\ Len(calls) <= MaxCalls
  /\ dispatch \in Seq(Dispatched) /\ Len(dispatch) <= MaxCalls
  /\ stored \subseteq (1 .. MaxIterations) \X (1 .. MaxCalls)
  /\ pending \in Seq(stored) /\ kept \in Seq(stored)
  /\ task \in [state : TASK_STATE, artifacts : Seq(Artifacts)]
  /\ dispatch # <<>> \/ pc \in {"beforeModel", "model", "dispatch", "tools", "awaiting"} =>
       iteration >= 1

LEMMA CompletionsAre == Completions = {names \in Seq(CalledNames) : Len(names) <= MaxCalls}
BY AgentConstants, BoundedSequences DEF AgentConstants, Completions

LEMMA TypesHold == TypeInvariant => TypeOK
<1> SUFFICES ASSUME TypeInvariant PROVE TypeOK
  OBVIOUS
<1>1. calls \in Completions /\ dispatch \in BoundedSeq(Dispatched, MaxCalls)
  <2>1. MaxCalls \in Nat
    BY AgentConstants DEF AgentConstants
  <2>2. BoundedSeq(Dispatched, MaxCalls) = {s \in Seq(Dispatched) : Len(s) <= MaxCalls}
    BY <2>1, BoundedSequences
  <2> QED BY <2>2, CompletionsAre DEF TypeInvariant
<1>2. ToSet(pending) \subseteq stored /\ ToSet(kept) \subseteq stored
  BY Elements DEF TypeInvariant
<1> QED BY <1>1, <1>2 DEF TypeInvariant, TypeOK, AgentTypeOK, BackgroundTypeOK, Dispatched

(* A tool stores at most an artifact of its own call.                      *)
LEMMA ToolStepKeepsTypes ==
  ASSUME TypeInvariant, ToolStep, UNCHANGED <<task, kept>>
  PROVE  TypeInvariant'
<1>1. PICK i \in DOMAIN dispatch : RunTool(i) \/ AfterTool(i)
  BY DEF ToolStep
<1>2. UNCHANGED <<handler, toolBox, signal, pc, iteration, calls, task, kept>>
  BY DEF ToolStep
<1>3. i \in 1 .. MaxCalls /\ iteration \in 1 .. MaxIterations
  <2>1. dispatch # <<>> /\ i \in 1 .. Len(dispatch)
    BY DEF TypeInvariant
  <2> QED BY <2>1, AgentConstants DEF AgentConstants, TypeInvariant
<1>4. PICK result \in Dispatched : dispatch' = [dispatch EXCEPT ![i] = result]
  BY <1>1 DEF RunTool, AfterTool, createArtifact, executeTool, Dispatched
<1>5. dispatch' \in Seq(Dispatched) /\ Len(dispatch') = Len(dispatch) /\ iteration >= 1
  BY <1>3, <1>4 DEF TypeInvariant
<1>6. \/ UNCHANGED <<pending, stored>>
      \/ stored' = stored \cup {Call(i)} /\ pending' = Append(pending, Call(i))
  BY <1>1 DEF RunTool, AfterTool, createArtifact
<1>7. Call(i) \in (1 .. MaxIterations) \X (1 .. MaxCalls)
  BY <1>3 DEF Call
<1>8. /\ stored' \subseteq (1 .. MaxIterations) \X (1 .. MaxCalls)
      /\ pending' \in Seq(stored') /\ kept' \in Seq(stored')
  <2>1. /\ stored \subseteq (1 .. MaxIterations) \X (1 .. MaxCalls)
        /\ pending \in Seq(stored) /\ kept \in Seq(stored)
    BY DEF TypeInvariant
  <2>2. pending \in Seq(stored \cup {Call(i)}) /\ kept \in Seq(stored \cup {Call(i)})
    BY <2>1
  <2>3. Append(pending, Call(i)) \in Seq(stored \cup {Call(i)})
    BY <2>2
  <2> QED BY <1>2, <1>6, <1>7, <2>1, <2>2, <2>3
<1> QED BY <1>2, <1>5, <1>8 DEF TypeInvariant

(* What the ends of the background handler and its loop head do to types.  *)
LEMMA FinishKeepsTypes ==
  ASSUME TypeInvariant, NEW state \in TASK_STATE, Finish(state, Drained),
         UNCHANGED <<handler, toolBox, signal, iteration, stored>>,
         calls' \in Completions, dispatch' \in {dispatch, <<>>}
  PROVE  TypeInvariant'
<1>1. Drained \in Seq(stored) /\ Drained \in Seq(Artifacts)
  <2>1. Drained \in Seq(stored)
    BY DEF TypeInvariant, Drained, drainPendingArtifacts
  <2>2. stored \subseteq Artifacts
    BY DEF TypeInvariant, Artifacts
  <2> QED BY <2>1, <2>2
<1>2. task' \in [state : TASK_STATE, artifacts : Seq(Artifacts)]
  <2>1. task.artifacts \o Drained \in Seq(Artifacts)
    BY <1>1 DEF TypeInvariant
  <2> QED BY <2>1 DEF TypeInvariant, Finish, transitionTask
<1>3. pc' = "done" /\ kept' = Drained /\ pending' = <<>>
  BY DEF Finish
<1>4. dispatch' # <<>> => iteration' >= 1
  BY DEF TypeInvariant
<1>5. kept' \in Seq(stored') /\ pending' \in Seq(stored')
  BY <1>1, <1>3
<1>6. calls' \in Seq(CalledNames) /\ Len(calls') <= MaxCalls
  BY CompletionsAre
<1>7. dispatch' \in Seq(Dispatched) /\ Len(dispatch') <= MaxCalls
  <2>1. CASE dispatch' = dispatch
    BY <2>1 DEF TypeInvariant
  <2>2. CASE dispatch' = <<>>
    BY <2>2, AgentConstants DEF AgentConstants
  <2> QED BY <2>1, <2>2
<1>8. task'.artifacts \in Seq(Artifacts)
  BY <1>2
<1> QED BY <1>2, <1>3, <1>4, <1>5, <1>6, <1>7 DEF TypeInvariant

LEMMA LoopHeadKeepsTypes ==
  ASSUME TypeInvariant, NEW done, done = iteration, NEW t, LoopHead(done, t),
         UNCHANGED <<handler, toolBox, signal, stored, dispatch>>, calls' \in Completions
  PROVE  TypeInvariant'
<1>1. CASE iteration = MaxIterations \/ signal
  <2>1. UNCHANGED iteration /\ \E state \in TASK_STATE : Finish(state, Drained)
    BY <1>1 DEF LoopHead, finalizeFailed, finalizeCancelled, TASK_STATE
  <2> QED BY <2>1, FinishKeepsTypes
<1>2. CASE ~(iteration = MaxIterations \/ signal)
  <2>1. iteration' = iteration + 1 /\ kept' = Drained /\ pending' = <<>> /\ UNCHANGED task
    BY <1>2 DEF LoopHead
  <2>2. iteration' \in 0 .. MaxIterations /\ iteration' >= 1
    BY <1>2, <2>1, AgentConstants DEF AgentConstants, TypeInvariant
  <2>3. kept' \in Seq(stored') /\ pending' \in Seq(stored')
    BY <2>1 DEF TypeInvariant, Drained, drainPendingArtifacts
  <2> QED BY <2>1, <2>2, <2>3, CompletionsAre DEF TypeInvariant
<1> QED BY <1>1, <1>2

LEMMA BackgroundKeepsTypes ==
  ASSUME TypeInvariant, BackgroundNext,
         ArtifactsInvariant, Background
  PROVE  TypeInvariant'
<1>1. {"PENDING", "IN_PROGRESS", "COMPLETED", "INPUT_REQUIRED", "FAILED", "CANCELLED"} \subseteq TASK_STATE
  BY DEF TASK_STATE
<1>2. Catch => \E state \in TASK_STATE : Finish(state, Drained)
  BY <1>1 DEF Catch, finalizeFailed, finalizeCancelled
<1>3. finalizeWithMessage(Drained) => \E state \in TASK_STATE : Finish(state, Drained)
  BY <1>1 DEF finalizeWithMessage
<1>4. calls \in Completions
  BY CompletionsAre DEF TypeInvariant
<1>5. CASE StartBackground
  <2>1. /\ UNCHANGED <<handler, toolBox, signal, iteration, calls, dispatch, pending, stored, kept>>
        /\ pc' \in {"done", "beforeAgent"}
    BY <1>5 DEF StartBackground, dispatchVars
  <2>2. task' \in [state : TASK_STATE, artifacts : Seq(Artifacts)]
    BY <1>1, <1>5 DEF StartBackground, transitionTask, TypeInvariant
  <2> QED BY <2>1, <2>2 DEF TypeInvariant
<1>6. CASE BeforeAgent
  <2>1. UNCHANGED <<handler, toolBox, signal, calls, dispatch, stored>> /\ iteration = 0
    BY <1>6 DEF BeforeAgent, ArtifactsInvariant
  <2>2. CASE LoopHead(0, tracker)
    BY <1>4, <2>1, <2>2, LoopHeadKeepsTypes
  <2>3. CASE UNCHANGED iteration /\ \E state \in TASK_STATE : Finish(state, Drained)
    BY <1>4, <2>1, <2>3, FinishKeepsTypes
  <2> QED BY <1>2, <1>3, <1>6, <2>2, <2>3 DEF BeforeAgent
<1>7. CASE CallModel
  BY <1>7 DEF CallModel, TypeInvariant, backgroundVars, dispatchVars
<1>8. CASE ModelFails
  <2>1. UNCHANGED <<handler, toolBox, signal, iteration, calls, dispatch, stored>>
    BY <1>8 DEF ModelFails
  <2> QED BY <1>2, <1>4, <1>8, <2>1, FinishKeepsTypes DEF ModelFails
<1>9. CASE AnswersFinally
  <2>1. /\ UNCHANGED <<handler, toolBox, signal, iteration, dispatch, stored, task>>
        /\ pc \in {"beforeModel", "model"} /\ calls' = <<>>
        /\ kept' = Drained /\ pending' = <<>>
    BY <1>9 DEF AnswersFinally, Answering
  <2>2. kept' \in Seq(stored) /\ pending' \in Seq(stored)
    BY <2>1 DEF TypeInvariant, Drained, drainPendingArtifacts
  <2>3. calls' \in Seq(CalledNames) /\ Len(calls') <= MaxCalls
    BY <2>1, AgentConstants DEF AgentConstants
  <2> QED BY <2>1, <2>2, <2>3 DEF TypeInvariant
<1>10. ASSUME NEW names \in Completions, AsksForInput(names) PROVE TypeInvariant'
  <2>1. /\ UNCHANGED <<handler, toolBox, signal, iteration, stored>>
        /\ calls' = names /\ dispatch' = <<>> /\ Finish("INPUT_REQUIRED", Drained)
    BY <1>10 DEF AsksForInput, Answering, finalizeInputRequired
  <2> QED BY <1>1, <2>1, FinishKeepsTypes
<1>11. ASSUME NEW names \in Completions, AnswersWithoutTools(names) PROVE TypeInvariant'
  <2>1. UNCHANGED <<handler, toolBox, signal, stored, dispatch>> /\ calls' = names
    BY <1>11 DEF AnswersWithoutTools
  <2>2. PICK t : LoopHead(iteration, t)
    BY <1>11 DEF AnswersWithoutTools
  <2> QED BY <2>1, <2>2, LoopHeadKeepsTypes
<1>12. ASSUME NEW names \in Completions, DispatchTools(names) PROVE TypeInvariant'
  <2>1. /\ UNCHANGED <<handler, toolBox, signal, iteration, pending, stored, task, kept>>
        /\ pc \in {"beforeModel", "model"} /\ calls' = names
        /\ dispatch' = [i \in DOMAIN names |-> "running"]
    BY <1>12 DEF DispatchTools, Answering, backgroundVars
  <2>2. /\ names \in Seq(CalledNames) /\ Len(names) <= MaxCalls
        /\ dispatch' \in Seq(Dispatched) /\ Len(dispatch') = Len(names)
    BY <2>1, CompletionsAre DEF Dispatched
  <2> QED BY <2>1, <2>2 DEF TypeInvariant
<1>13. CASE AfterAgent
  <2>1. UNCHANGED <<handler, toolBox, signal, iteration, calls, dispatch, stored>>
    BY <1>13 DEF AfterAgent
  <2> QED BY <1>2, <1>3, <1>4, <1>13, <2>1, FinishKeepsTypes DEF AfterAgent
<1>14. CASE BatchRejected
  <2>1. UNCHANGED <<handler, toolBox, signal, iteration, calls, dispatch, stored>>
    BY <1>14 DEF BatchRejected
  <2> QED BY <1>2, <1>4, <1>14, <2>1, FinishKeepsTypes DEF BatchRejected
<1>15. CASE BatchEnds
  <2>1. UNCHANGED <<handler, toolBox, signal, calls, dispatch, stored>>
    BY <1>15 DEF BatchEnds
  <2>2. CASE signal
    <3>1. Finish("CANCELLED", Drained) /\ UNCHANGED iteration
      BY <1>15, <2>2 DEF BatchEnds, finalizeCancelled
    <3> QED BY <1>1, <1>4, <2>1, <3>1, FinishKeepsTypes
  <2>3. CASE ~signal
    <3>1. PICK t : LoopHead(iteration, t)
      BY <1>15, <2>3 DEF BatchEnds
    <3> QED BY <1>4, <2>1, <3>1, LoopHeadKeepsTypes
  <2> QED BY <2>2, <2>3
<1>16. CASE ToolStep /\ UNCHANGED backgroundVars
  BY <1>16, ToolStepKeepsTypes DEF backgroundVars
<1> QED BY <1>5, <1>6, <1>7, <1>8, <1>9, <1>10, <1>11, <1>12, <1>13, <1>14, <1>15, <1>16
        DEF BackgroundNext, ModelAnswers

LEMMA StreamingKeepsTypes ==
  ASSUME TypeInvariant, StreamingNext, UNCHANGED backgroundVars
  PROVE  TypeInvariant'
<1> USE DEF At, Ends, Yields, TypeInvariant, dispatchVars, backgroundVars
<1>1. CASE Pull
  BY <1>1 DEF Pull
<1>2. CASE StartStreaming
  BY <1>2 DEF StartStreaming
<1>3. CASE CallbackThrows
  BY <1>3 DEF CallbackThrows
<1>4. CASE StreamBeforeAgent
  BY <1>4 DEF StreamBeforeAgent
<1>5. CASE Iterate
  <2>1. /\ UNCHANGED <<handler, toolBox, signal, calls, dispatch, pending, stored, kept, task>>
        /\ \/ iteration' = iteration
           \/ iteration < MaxIterations /\ iteration' = iteration + 1
        /\ pc' \in {"return", "done", "beforeModel"}
        /\ pc' = "beforeModel" => iteration' = iteration + 1
    BY <1>5 DEF Iterate
  <2>2. /\ iteration' \in 0 .. MaxIterations
        /\ dispatch' # <<>> \/ pc' = "beforeModel" => iteration' >= 1
    BY <2>1, AgentConstants DEF AgentConstants
  <2> QED BY <2>1, <2>2
<1>6. CASE StreamCallsModel
  BY <1>6 DEF StreamCallsModel
<1>7. CASE StreamModelFails
  BY <1>7 DEF StreamModelFails
<1>8. CASE StreamAnswersFinally
  <2>1. <<>> \in Seq(CalledNames) /\ Len(<<>>) <= MaxCalls
    BY AgentConstants DEF AgentConstants
  <2> QED BY <1>8, <2>1 DEF StreamAnswersFinally, StreamAnswering
<1>9. ASSUME NEW names \in Completions, StreamAsksForInput(names) PROVE TypeInvariant'
  <2>1. <<>> \in Seq(Dispatched) /\ Len(<<>>) <= MaxCalls
    BY AgentConstants DEF AgentConstants
  <2> QED BY <1>9, <2>1, CompletionsAre DEF StreamAsksForInput, StreamAnswering
<1>10. ASSUME NEW names \in Completions, StreamAnswersWithoutTools(names) PROVE TypeInvariant'
  BY <1>10, CompletionsAre DEF StreamAnswersWithoutTools
<1>11. ASSUME NEW names \in Completions, StreamAnnouncesTools(names) PROVE TypeInvariant'
  <2>1. <<>> \in Seq(Dispatched) /\ Len(<<>>) <= MaxCalls
    BY AgentConstants DEF AgentConstants
  <2> QED BY <1>11, <2>1, CompletionsAre DEF StreamAnnouncesTools, StreamAnswering
<1>12. CASE StreamAfterAgent
  BY <1>12 DEF StreamAfterAgent
<1>13. CASE StreamDispatches
  <2>1. dispatch' \in Seq(Dispatched) /\ Len(dispatch') = Len(calls)
    BY <1>13 DEF StreamDispatches, Dispatched
  <2> QED BY <1>13, <2>1 DEF StreamDispatches
<1>14. CASE AwaitTool
  BY <1>14 DEF AwaitTool
<1>15. CASE ToolAnswered
  BY <1>15 DEF ToolAnswered
<1>16. CASE StreamBatchEnds
  <2>1. <<>> \in Seq(stored)
    OBVIOUS
  <2> QED BY <1>16, <2>1 DEF StreamBatchEnds
<1>17. CASE StreamReturnsAtLast
  BY <1>17 DEF StreamReturnsAtLast
<1>18. CASE CloseGenerator
  BY <1>18 DEF CloseGenerator
<1>19. CASE UnhandledRejection
  BY <1>19 DEF UnhandledRejection
<1>20. CASE ToolStep
  <2>1. UNCHANGED <<task, kept>>
    OBVIOUS
  <2> HIDE DEF TypeInvariant
  <2> QED BY <1>20, <2>1, ToolStepKeepsTypes
<1> QED BY <1>1, <1>2, <1>3, <1>4, <1>5, <1>6, <1>7, <1>8, <1>9, <1>10, <1>11, <1>12, <1>13,
           <1>14, <1>15, <1>16, <1>17, <1>18, <1>19, <1>20
        DEF StreamingNext, StreamModelAnswers

LEMMA TypesAlways == Spec => []TypeInvariant
<1>1. Init => TypeInvariant
  <2> SUFFICES ASSUME Init PROVE TypeInvariant
    OBVIOUS
  <2>1. /\ handler \in {"background", "streaming"} /\ toolBox \in BOOLEAN /\ signal = FALSE
        /\ pc = "start" /\ iteration = 0 /\ calls = <<>> /\ dispatch = <<>>
        /\ pending = <<>> /\ stored = {} /\ kept = <<>>
        /\ task \in [state : {"PENDING", "IN_PROGRESS", "COMPLETED"}, artifacts : {<<>>}]
    BY Zenon DEF Init, AgentInit, BackgroundInit
  <2>2. <<>> \in Seq(Artifacts) /\ <<>> \in Seq(stored) /\ <<>> \in Seq(CalledNames)
        /\ <<>> \in Seq(Dispatched) /\ Len(<<>>) = 0
    OBVIOUS
  <2>3. task \in [state : TASK_STATE, artifacts : Seq(Artifacts)]
    <3>1. PICK state \in TASK_STATE : task = [state |-> state, artifacts |-> <<>>]
      BY <2>1 DEF TASK_STATE
    <3> QED BY <2>2, <3>1
  <2>4. iteration \in 0 .. MaxIterations /\ Len(<<>>) <= MaxCalls
    BY <2>1, <2>2, AgentConstants DEF AgentConstants
  <2> QED BY <2>1, <2>2, <2>3, <2>4 DEF TypeInvariant
<1>2. TypeInvariant /\ ArtifactsInvariant /\ [Next]_vars => TypeInvariant'
  <2> SUFFICES ASSUME TypeInvariant, ArtifactsInvariant, [Next]_vars PROVE TypeInvariant'
    OBVIOUS
  <2>1. CASE AbortRun
    BY <2>1 DEF AbortRun, Abort, backgroundVars, dispatchVars, TypeInvariant
  <2>2. CASE BackgroundNext
    <3>1. Background
      BY <2>2 DEF BackgroundNext, StartBackground, BeforeAgent, CallModel, ModelFails, ModelAnswers,
           AnswersFinally, AsksForInput, AnswersWithoutTools, DispatchTools, Answering, AfterAgent,
           BatchRejected, BatchEnds
    <3> QED BY <2>2, <3>1, BackgroundKeepsTypes
  <2>3. CASE StreamingNext /\ UNCHANGED backgroundVars
    BY <2>3, StreamingKeepsTypes
  <2>4. CASE UNCHANGED vars
    BY <2>4 DEF vars, agentVars, backgroundVars, dispatchVars, TypeInvariant
  <2> QED BY <2>1, <2>2, <2>3, <2>4 DEF Next
<1> QED BY <1>1, <1>2, ArtifactsAlways, PTL DEF Spec

(* Every variable of the agent loop keeps its type; in particular only     *)
(* what the service stored is in the slot or among the drained artifacts,  *)
(* and no iteration begins beyond the cap.                                 *)
THEOREM AgentTypes == Spec => []TypeOK
BY TypesAlways, TypesHold, PTL
-----------------------------------------------------------------------------
(* What the streaming handler is going to have told when it next waits.    *)

EventTypes == {"delta", "toolStarted", "toolCompleted", "toolFailed", "toolResult",
               "artifactCreated", "inputRequiredNotice", "iterationCompleted",
               "COMPLETED", "FAILED", "INPUT_REQUIRED"}
Events == [type : EventTypes, call : Nat \X Nat, guarded : BOOLEAN]

Planned == events \o out

StreamTypes == events \in Seq(Events) /\ out \in Seq(Events) /\ awaited \in Nat

LEMMA EventFields ==
  ASSUME NEW type \in EventTypes, NEW call \in Nat \X Nat
  PROVE  /\ Event(type) \in Events /\ Event(type).type = type
         /\ \A e \in {About(type, call), Guarded(About(type, call))} :
              e \in Events /\ e.type = type /\ e.call = call
<1>1. About(type, call) \in Events /\ About(type, call).type = type /\ About(type, call).call = call
  BY DEF About, Events
<1>2. /\ Guarded(About(type, call)) \in Events
      /\ Guarded(About(type, call)).type = type /\ Guarded(About(type, call)).call = call
  BY <1>1 DEF Guarded, Events
<1> QED BY <1>1, <1>2 DEF Event, About, Events

LEMMA AskedPosition ==
  ASSUME NEW names \in Seq(CalledNames)
  PROVE  SelectInSeq(names, LAMBDA n : n = INPUT_REQUIRED_TOOL) \in Nat
<1> DEFINE I == {i \in 1 .. Len(names) : names[i] = INPUT_REQUIRED_TOOL}
<1>1. I # {} => Min(I) \in I
  <2> SUFFICES ASSUME I # {} PROVE Min(I) \in I
    OBVIOUS
  <2>1. I \in SUBSET Nat
    OBVIOUS
  <2>2. \E n \in I : \A m \in I : n <= m
    BY <2>1, LeastNumber
  <2> QED BY <2>2 DEF Min
<1>2. SelectInSeq(names, LAMBDA n : n = INPUT_REQUIRED_TOOL) = IF I # {} THEN Min(I) ELSE 0
  BY DEF SelectInSeq
<1>3. \A i \in I : i \in Nat
  OBVIOUS
<1> HIDE DEF I
<1> QED BY <1>1, <1>2, <1>3

(* Three events for each refused call.                                     *)
LEMMA RefusedEvents ==
  ASSUME NEW names \in Seq(CalledNames), iteration \in Nat
  PROVE  /\ AllRefused(names) \in Seq(Events) /\ Len(AllRefused(names)) = 3 * Len(names)
         /\ \A k \in 1 .. 3 * Len(names) :
              /\ AllRefused(names)[k].type \in {"toolStarted", "toolFailed", "toolResult"}
              /\ \E i \in 1 .. Len(names) :
                   /\ AllRefused(names)[k].call = Call(i)
                   /\ AllRefused(names)[k].type = "toolStarted" <=> k = 3 * i - 2
                   /\ AllRefused(names)[k].type = "toolFailed" <=> k = 3 * i - 1
                   /\ AllRefused(names)[k].type = "toolResult" <=> k = 3 * i
<1>1. ASSUME NEW k \in 1 .. 3 * Len(names)
      PROVE  /\ AllRefused(names)[k] \in Events
             /\ AllRefused(names)[k].type \in {"toolStarted", "toolFailed", "toolResult"}
             /\ \E i \in 1 .. Len(names) :
                   /\ AllRefused(names)[k].call = Call(i)
                   /\ AllRefused(names)[k].type = "toolStarted" <=> k = 3 * i - 2
                   /\ AllRefused(names)[k].type = "toolFailed" <=> k = 3 * i - 1
                   /\ AllRefused(names)[k].type = "toolResult" <=> k = 3 * i
  <2> DEFINE i == 1 + ((k - 1) \div 3)
             r == 1 + ((k - 1) % 3)
  <2>1. i \in 1 .. Len(names) /\ r \in 1 .. 3 /\ k = 3 * (i - 1) + r
    OBVIOUS
  <2>2. AllRefused(names)[k] = Refused(i)[r]
    BY DEF AllRefused
  <2> HIDE DEF i, r
  <2>3. Call(i) \in Nat \X Nat
    BY <2>1 DEF Call
  <2>4. {"toolStarted", "toolFailed", "toolResult"} \subseteq EventTypes
    BY DEF EventTypes
  <2>5. /\ Refused(i)[1] = Guarded(About("toolStarted", Call(i)))
        /\ Refused(i)[2] = About("toolFailed", Call(i))
        /\ Refused(i)[3] = About("toolResult", Call(i))
    BY DEF Refused
  <2>6. CASE r = 1
    BY <2>1, <2>2, <2>3, <2>4, <2>5, <2>6, EventFields
  <2>7. CASE r = 2
    BY <2>1, <2>2, <2>3, <2>4, <2>5, <2>7, EventFields
  <2>8. CASE r = 3
    BY <2>1, <2>2, <2>3, <2>4, <2>5, <2>8, EventFields
  <2> QED BY <2>1, <2>6, <2>7, <2>8
<1>2. AllRefused(names) = [k \in 1 .. 3 * Len(names) |-> AllRefused(names)[k]]
  BY DEF AllRefused
<1>3. 3 * Len(names) \in Nat
  OBVIOUS
<1>4. AllRefused(names) \in Seq(Events) /\ Len(AllRefused(names)) = 3 * Len(names)
  BY <1>1, <1>2, <1>3
<1> QED BY <1>1, <1>4

(* The announcements of a batch and the events of its artifacts.           *)
LEMMA Announcements ==
  ASSUME NEW names \in Seq(CalledNames), iteration \in Nat
  PROVE  LET s == [i \in DOMAIN names |-> Guarded(About("toolStarted", Call(i)))]
         IN  /\ s \in Seq(Events) /\ Len(s) = Len(names)
             /\ \A i \in 1 .. Len(names) : s[i].type = "toolStarted" /\ s[i].call = Call(i)
<1> DEFINE s == [i \in DOMAIN names |-> Guarded(About("toolStarted", Call(i)))]
<1>1. "toolStarted" \in EventTypes
  BY DEF EventTypes
<1>2. \A i \in 1 .. Len(names) : Call(i) \in Nat \X Nat
  BY DEF Call
<1>3. \A i \in 1 .. Len(names) : s[i] \in Events /\ s[i].type = "toolStarted" /\ s[i].call = Call(i)
  BY <1>1, <1>2, EventFields
<1>4. s = [i \in 1 .. Len(names) |-> s[i]]
  OBVIOUS
<1> HIDE DEF s
<1>5. s \in Seq(Events) /\ Len(s) = Len(names)
  BY <1>3, <1>4
<1>6. s \in Seq(Events) /\ Len(s) = Len(names)
      /\ \A i \in 1 .. Len(names) : s[i].type = "toolStarted" /\ s[i].call = Call(i)
  BY <1>3, <1>5
<1> QED BY <1>6 DEF s

LEMMA ArtifactEventsAre ==
  ASSUME pending \in Seq(Artifacts)
  PROVE  /\ ArtifactEvents \in Seq(Events) /\ Len(ArtifactEvents) = Len(pending)
         /\ \A i \in 1 .. Len(pending) : /\ ArtifactEvents[i].type = "artifactCreated"
                                         /\ ArtifactEvents[i].call = pending[i]
<1>1. "artifactCreated" \in EventTypes
  BY DEF EventTypes
<1>2. \A i \in 1 .. Len(pending) : pending[i] \in Nat \X Nat
  BY DEF Artifacts
<1>3. ArtifactEvents = [i \in 1 .. Len(pending) |-> About("artifactCreated", pending[i])]
  BY DEF ArtifactEvents, drainPendingArtifacts
<1>4. \A i \in 1 .. Len(pending) :
        /\ ArtifactEvents[i] \in Events
        /\ ArtifactEvents[i].type = "artifactCreated" /\ ArtifactEvents[i].call = pending[i]
  BY <1>1, <1>2, <1>3, EventFields
<1> QED BY <1>3, <1>4

LEMMA PlannedTypes == StreamTypes => Planned \in Seq(Events) /\ Len(Planned) = Len(events) + Len(out)
BY DEF StreamTypes, Planned

(* How a step may change what is planned: the next event is handed over,   *)
(* what is left is dropped, or the events of a further stretch of code are *)
(* added.                                                                  *)
HandsOver == out # <<>> /\ events' = Append(events, Head(out)) /\ out' = Tail(out)
Drops == out' = <<>> /\ UNCHANGED events
Adds(items) == out = <<>> /\ out' = items /\ UNCHANGED events

LEMMA HandedOver ==
  ASSUME StreamTypes, HandsOver
  PROVE  events' \in Seq(Events) /\ out' \in Seq(Events) /\ Planned' = Planned
<1>1. events \in Seq(Events) /\ out \in Seq(Events) /\ Len(out) > 0
  BY DEF StreamTypes, HandsOver
<1>2. Head(out) \in Events /\ Tail(out) \in Seq(Events)
  BY <1>1
<1>3. Append(events, Head(out)) \o Tail(out) = events \o out
  <2> DEFINE h == Head(out)
             t == Tail(out)
  <2>1. out = <<h>> \o t
    BY <1>1
  <2> HIDE DEF h, t
  <2>2. Append(events, h) = events \o <<h>>
    BY <1>1, <1>2 DEF h
  <2>3. (events \o <<h>>) \o t = events \o (<<h>> \o t)
    BY <1>1, <1>2, ConcatAssociative DEF h, t
  <2> QED BY <2>1, <2>2, <2>3 DEF h, t
<1>4. events' = Append(events, Head(out)) /\ out' = Tail(out)
  BY DEF HandsOver
<1>5. events' \in Seq(Events) /\ out' \in Seq(Events)
  BY <1>1, <1>2, <1>4
<1>6. Planned' = Planned
  BY <1>3, <1>4 DEF Planned
<1> QED BY <1>5, <1>6

LEMMA Dropped ==
  ASSUME StreamTypes, Drops
  PROVE  events' \in Seq(Events) /\ out' \in Seq(Events) /\ Planned' = events /\ Planned = events \o out
BY DEF StreamTypes, Drops, Planned

LEMMA Added ==
  ASSUME StreamTypes, NEW items \in Seq(Events), Adds(items)
  PROVE  events' \in Seq(Events) /\ out' \in Seq(Events) /\ Planned = events /\ Planned' = events \o items
BY DEF StreamTypes, Adds, Planned
-----------------------------------------------------------------------------
(* ArtifactsStreamed.                                                      *)

Says(s, type) == {p \in 1 .. Len(s) : s[p].type = type}
Shown(s) == {s[p].call : p \in Says(s, "artifactCreated")}
ShownOnce(s) == \A p, q \in Says(s, "artifactCreated") : s[p].call = s[q].call => p = q

LEMMA ShownPrefix ==
  ASSUME NEW s \in Seq(Events), NEW t \in Seq(Events)
  PROVE  /\ Shown(s) \subseteq Shown(s \o t)
         /\ ShownOnce(s \o t) => ShownOnce(s)
<1>1. \A p \in 1 .. Len(s) : p \in 1 .. Len(s \o t) /\ (s \o t)[p] = s[p]
  OBVIOUS
<1> QED BY <1>1 DEF Shown, ShownOnce, Says

LEMMA ShownQuiet ==
  ASSUME NEW s \in Seq(Events), NEW t \in Seq(Events),
         \A k \in 1 .. Len(t) : t[k].type # "artifactCreated"
  PROVE  Says(s \o t, "artifactCreated") = Says(s, "artifactCreated")
         /\ Shown(s \o t) = Shown(s) /\ (ShownOnce(s) => ShownOnce(s \o t))
<1>1. \A p \in 1 .. Len(s) : p \in 1 .. Len(s \o t) /\ (s \o t)[p] = s[p]
  OBVIOUS
<1>2. \A p \in 1 .. Len(s \o t) : p \notin 1 .. Len(s) => (s \o t)[p].type # "artifactCreated"
  <2> SUFFICES ASSUME NEW p \in 1 .. Len(s \o t), p \notin 1 .. Len(s)
               PROVE  (s \o t)[p].type # "artifactCreated"
    OBVIOUS
  <2>1. p - Len(s) \in 1 .. Len(t) /\ (s \o t)[p] = t[p - Len(s)]
    OBVIOUS
  <2> QED BY <2>1
<1>3. Says(s \o t, "artifactCreated") = Says(s, "artifactCreated")
  BY <1>1, <1>2 DEF Says
<1>4. \A p \in Says(s, "artifactCreated") : (s \o t)[p] = s[p]
  BY <1>1 DEF Says
<1> QED BY <1>3, <1>4 DEF Shown, ShownOnce

AllSettled == \A i \in 1 .. Len(dispatch) : dispatch[i] \in {"ok", "failed"}

(* Until it ends, a run has shown every stored artifact or holds it in the *)
(* slot, and once its generator is past a batch the slot is empty and no   *)
(* call of the batch is under way that could fill it.                      *)
ShowingInvariant ==
  Streaming =>
    /\ stored \subseteq (0 .. iteration) \X Nat
    /\ \A i \in 1 .. Len(dispatch) : dispatch[i] = "running" => Call(i) \notin stored
    /\ outcome = "returned" => pc = "done"
    /\ pc = "done" => out = <<>>
    /\ pc = "dispatch" => awaited = 0
    /\ pc = "tools" => \A i \in 1 .. awaited : i <= Len(dispatch) /\ dispatch[i] \in {"ok", "failed"}
    /\ pc = "awaiting" => /\ awaited \in 1 .. Len(dispatch)
                          /\ \A i \in 1 .. awaited - 1 : dispatch[i] \in {"ok", "failed"}
    /\ pc \notin {"tools", "awaiting", "done"} \/ outcome = "returned" => pending = <<>> /\ AllSettled
    /\ pc \in {"beforeModel", "model", "dispatch"} => \A i \in Nat : Call(i) \notin stored
    /\ ShownOnce(Planned) /\ Shown(Planned) \subseteq stored
    /\ \A i \in 1 .. Len(pending) : pending[i] \in stored \ Shown(Planned)
    /\ \A i, j \in 1 .. Len(pending) : pending[i] = pending[j] => i = j
    /\ pc # "done" \/ outcome = "returned" =>
         \A a \in stored : a \in Shown(Planned) \/ \E i \in 1 .. Len(pending) : pending[i] = a

LEMMA ShowingFacts ==
  TypeInvariant => /\ iteration \in Nat /\ dispatch \in Seq(Dispatched)
                   /\ pending \in Seq(Artifacts) /\ calls \in Seq(CalledNames)
<1> SUFFICES ASSUME TypeInvariant
             PROVE /\ iteration \in Nat /\ dispatch \in Seq(Dispatched)
                   /\ pending \in Seq(Artifacts) /\ calls \in Seq(CalledNames)
  OBVIOUS
<1>1. stored \subseteq Artifacts /\ pending \in Seq(stored)
  BY DEF TypeInvariant, Artifacts
<1> QED BY <1>1, AgentConstants DEF TypeInvariant, AgentConstants

(* An end other than the return of the generator, wherever it is met.      *)
LEMMA EndKeepsShowing ==
  ASSUME TypeInvariant, StreamTypes, ShowingInvariant, Streaming, NEW how, how # "returned", Ends(how),
         UNCHANGED <<handler, iteration, dispatch, pending, stored, events, awaited>>
  PROVE  StreamTypes' /\ ShowingInvariant'
<1>1. Drops /\ pc' = "done" /\ outcome' # "returned" /\ out' = <<>>
  BY DEF Ends, Drops
<1>2. events' \in Seq(Events) /\ out' \in Seq(Events) /\ Planned' = events /\ Planned = events \o out
  BY <1>1, Dropped
<1>3. Shown(Planned') \subseteq Shown(Planned) /\ (ShownOnce(Planned) => ShownOnce(Planned'))
  BY <1>2, ShownPrefix DEF StreamTypes
<1>4. \A i \in Nat : Call(i)' = Call(i)
  BY DEF Call
<1>5. StreamTypes'
  BY <1>2 DEF StreamTypes
<1>6. /\ stored' \subseteq (0 .. iteration') \X Nat
      /\ \A i \in 1 .. Len(dispatch') : dispatch'[i] = "running" => Call(i)' \notin stored'
  BY <1>4, ShowingFacts DEF ShowingInvariant
<1>7. /\ ShownOnce(Planned') /\ Shown(Planned') \subseteq stored'
      /\ \A i \in 1 .. Len(pending') : pending'[i] \in stored' \ Shown(Planned')
      /\ \A i, j \in 1 .. Len(pending') : pending'[i] = pending'[j] => i = j
  BY <1>3 DEF ShowingInvariant
<1>8. ShowingInvariant'
  BY <1>1, <1>6, <1>7 DEF ShowingInvariant, ShownOnce, Shown, Says
<1> QED BY <1>5, <1>8

(* Events other than those of artifacts change nothing about what is shown.*)
LEMMA QuietAdds ==
  ASSUME StreamTypes, ShowingInvariant, Streaming, NEW items \in Seq(Events), Adds(items),
         \A k \in 1 .. Len(items) : items[k].type # "artifactCreated",
         UNCHANGED <<pending, stored>>
  PROVE  /\ events' \in Seq(Events) /\ out' \in Seq(Events)
         /\ ShownOnce(Planned') /\ Shown(Planned') \subseteq stored'
         /\ \A i \in 1 .. Len(pending') : pending'[i] \in stored' \ Shown(Planned')
         /\ \A i, j \in 1 .. Len(pending') : pending'[i] = pending'[j] => i = j
         /\ pc # "done" => \A a \in stored' :
              a \in Shown(Planned') \/ \E i \in 1 .. Len(pending') : pending'[i] = a
<1>1. events' \in Seq(Events) /\ out' \in Seq(Events) /\ Planned = events /\ Planned' = events \o items
  BY Added
<1>2. Shown(Planned') = Shown(Planned) /\ (ShownOnce(Planned) => ShownOnce(Planned'))
  BY <1>1, ShownQuiet DEF StreamTypes
<1>3. /\ ShownOnce(Planned) /\ Shown(Planned) \subseteq stored
      /\ \A i \in 1 .. Len(pending) : pending[i] \in stored \ Shown(Planned)
      /\ \A i, j \in 1 .. Len(pending) : pending[i] = pending[j] => i = j
      /\ pc # "done" => \A a \in stored :
            a \in Shown(Planned) \/ \E i \in 1 .. Len(pending) : pending[i] = a
  BY DEF ShowingInvariant
<1> QED BY <1>1, <1>2, <1>3

(* The invariant from its parts, for the steps that add quiet events.      *)
LEMMA QuietKeepsShowing ==
  ASSUME TypeInvariant, StreamTypes, ShowingInvariant, Streaming, pc # "done",
         NEW items \in Seq(Events), Adds(items),
         \A k \in 1 .. Len(items) : items[k].type # "artifactCreated",
         UNCHANGED <<handler, pending, stored, outcome>>, awaited' \in Nat,
         iteration' \in {iteration, iteration + 1},
         \A i \in 1 .. Len(dispatch') : dispatch'[i] = "running" => Call(i)' \notin stored',
         pc' # "done",
         pc' = "dispatch" => awaited' = 0,
         pc' = "tools" => \A i \in 1 .. awaited' : i <= Len(dispatch') /\ dispatch'[i] \in {"ok", "failed"},
         pc' = "awaiting" => /\ awaited' \in 1 .. Len(dispatch')
                             /\ \A i \in 1 .. awaited' - 1 : dispatch'[i] \in {"ok", "failed"},
         pc' \notin {"tools", "awaiting"} => pending' = <<>> /\ AllSettled',
         pc' \in {"beforeModel", "model", "dispatch"} => \A i \in Nat : Call(i)' \notin stored'
  PROVE  StreamTypes' /\ ShowingInvariant'
<1>1. /\ events' \in Seq(Events) /\ out' \in Seq(Events)
      /\ ShownOnce(Planned') /\ Shown(Planned') \subseteq stored'
      /\ \A i \in 1 .. Len(pending') : pending'[i] \in stored' \ Shown(Planned')
      /\ \A i, j \in 1 .. Len(pending') : pending'[i] = pending'[j] => i = j
      /\ \A a \in stored' :
            a \in Shown(Planned') \/ \E i \in 1 .. Len(pending') : pending'[i] = a
  BY QuietAdds
<1>2. outcome' # "returned"
  BY DEF ShowingInvariant
<1>3. stored' \subseteq (0 .. iteration') \X Nat
  BY ShowingFacts DEF ShowingInvariant
<1>4. StreamTypes'
  BY <1>1 DEF StreamTypes
<1>5. ShowingInvariant'
  BY <1>1, <1>2, <1>3 DEF ShowingInvariant, ShownOnce, Shown, Says
<1> QED BY <1>4, <1>5

(* A tool stores under a call of its own, which has not been shown.        *)
LEMMA ToolStepKeepsShowing ==
  ASSUME TypeInvariant, StreamTypes, ShowingInvariant, Streaming, ToolStep, UNCHANGED streamingVars
  PROVE  StreamTypes' /\ ShowingInvariant'
<1>1. PICK i \in DOMAIN dispatch : RunTool(i) \/ AfterTool(i)
  BY DEF ToolStep
<1>2. /\ UNCHANGED <<handler, pc, iteration, outcome, events, out, awaited>>
      /\ dispatch \in Seq(Dispatched) /\ i \in 1 .. Len(dispatch) /\ iteration \in Nat
      /\ pending \in Seq(Artifacts)
  BY ShowingFacts DEF ToolStep, streamingVars
<1>3. /\ dispatch[i] \in {"running", "ranOk", "ranFailed"}
      /\ \E result \in Dispatched \ {"running"} : dispatch' = [dispatch EXCEPT ![i] = result]
      /\ \/ UNCHANGED <<pending, stored>>
         \/ /\ dispatch[i] = "running"
            /\ stored' = stored \cup {Call(i)} /\ pending' = Append(pending, Call(i))
  BY <1>1, <1>2 DEF RunTool, AfterTool, createArtifact, executeTool, Dispatched
<1>4. /\ dispatch' \in Seq(Dispatched) /\ Len(dispatch') = Len(dispatch)
      /\ dispatch'[i] # "running"
      /\ \A j \in 1 .. Len(dispatch) : j # i => dispatch'[j] = dispatch[j]
  BY <1>2, <1>3
<1>5. Call(i) \in Artifacts /\ Call(i) \in (0 .. iteration) \X Nat
      /\ \A j \in 1 .. Len(dispatch) : j # i => Call(j) # Call(i)
  BY <1>2 DEF Call, Artifacts
<1>6. \A j \in Nat : Call(j)' = Call(j)
  BY <1>2 DEF Call
<1>7. Planned' = Planned /\ StreamTypes'
  BY <1>2 DEF Planned, StreamTypes
<1>8. /\ stored \subseteq (0 .. iteration) \X Nat /\ ShownOnce(Planned) /\ Shown(Planned) \subseteq stored
      /\ \A j \in 1 .. Len(dispatch) : dispatch[j] = "running" => Call(j) \notin stored
      /\ \A j \in 1 .. Len(pending) : pending[j] \in stored \ Shown(Planned)
      /\ \A j, k \in 1 .. Len(pending) : pending[j] = pending[k] => j = k
  BY DEF ShowingInvariant
<1>9. /\ stored' \subseteq (0 .. iteration') \X Nat
      /\ \A j \in 1 .. Len(dispatch') : dispatch'[j] = "running" => Call(j)' \notin stored'
  <2>1. stored' \subseteq stored \cup {Call(i)}
    BY <1>3
  <2>2. stored' \subseteq (0 .. iteration) \X Nat
    BY <2>1, <1>5, <1>8
  <2>3. ASSUME NEW j \in 1 .. Len(dispatch'), dispatch'[j] = "running" PROVE Call(j)' \notin stored'
    <3>1. j # i /\ j \in 1 .. Len(dispatch) /\ dispatch[j] = "running"
      BY <1>4, <2>3
    <3>2. Call(j) \notin stored /\ Call(j) # Call(i) /\ Call(j)' = Call(j)
      BY <1>5, <1>6, <1>8, <3>1
    <3> QED BY <2>1, <3>2
  <2> QED BY <1>2, <2>2, <2>3
<1>10. /\ Shown(Planned') \subseteq stored' /\ ShownOnce(Planned')
       /\ \A j \in 1 .. Len(pending') : pending'[j] \in stored' \ Shown(Planned')
       /\ \A j, k \in 1 .. Len(pending') : pending'[j] = pending'[k] => j = k
       /\ (\A a \in stored : a \in Shown(Planned) \/ \E k \in 1 .. Len(pending) : pending[k] = a) =>
            \A a \in stored' : a \in Shown(Planned') \/ \E k \in 1 .. Len(pending') : pending'[k] = a
  <2>1. CASE UNCHANGED <<pending, stored>>
    BY <1>7, <1>8, <2>1
  <2>2. CASE /\ dispatch[i] = "running"
             /\ stored' = stored \cup {Call(i)} /\ pending' = Append(pending, Call(i))
    <3>1. Call(i) \notin stored
      BY <1>2, <1>8, <2>2
    <3>2. /\ Len(pending') = Len(pending) + 1 /\ pending'[Len(pending) + 1] = Call(i)
          /\ \A j \in 1 .. Len(pending) : pending'[j] = pending[j]
      BY <1>2, <1>5, <2>2
    <3>3. Len(pending) \in Nat
      BY <1>2
    <3>4. Call(i) \notin Shown(Planned)
      BY <1>8, <3>1
    <3>5. \A j \in 1 .. Len(pending') : pending'[j] \in stored' \ Shown(Planned')
      BY <1>7, <1>8, <2>2, <3>1, <3>2, <3>3, <3>4
    <3>6. \A j, k \in 1 .. Len(pending') : pending'[j] = pending'[k] => j = k
      BY <1>8, <3>1, <3>2, <3>3
    <3>7. (\A a \in stored : a \in Shown(Planned) \/ \E k \in 1 .. Len(pending) : pending[k] = a) =>
            \A a \in stored' : a \in Shown(Planned') \/ \E k \in 1 .. Len(pending') : pending'[k] = a
      <4>1. Len(pending) + 1 \in 1 .. Len(pending')
        BY <3>2, <3>3
      <4>2. \A j \in 1 .. Len(pending) : j \in 1 .. Len(pending')
        BY <3>2, <3>3
      <4> QED BY <1>7, <2>2, <3>2, <4>1, <4>2
    <3> QED BY <1>7, <1>8, <2>2, <3>5, <3>6, <3>7
  <2> QED BY <1>3, <2>1, <2>2
<1>11. ~AllSettled /\ outcome # "returned" /\ pc \in {"tools", "awaiting", "done"}
  BY <1>2, <1>3 DEF AllSettled, ShowingInvariant
<1>12. /\ pc = "tools" => \A j \in 1 .. awaited : j <= Len(dispatch') /\ dispatch'[j] \in {"ok", "failed"}
       /\ pc = "awaiting" => /\ awaited \in 1 .. Len(dispatch')
                             /\ \A j \in 1 .. awaited - 1 : dispatch'[j] \in {"ok", "failed"}
  <2>1. pc = "tools" => \A j \in 1 .. awaited : j <= Len(dispatch) /\ dispatch[j] \in {"ok", "failed"}
    BY DEF ShowingInvariant
  <2>2. pc = "awaiting" => /\ awaited \in 1 .. Len(dispatch)
                           /\ \A j \in 1 .. awaited - 1 : dispatch[j] \in {"ok", "failed"}
    BY DEF ShowingInvariant
  <2>3. awaited \in Nat
    BY DEF StreamTypes
  <2> QED BY <1>2, <1>3, <1>4, <2>1, <2>2, <2>3
<1>13. pc = "done" => out = <<>>
  BY DEF ShowingInvariant
<1>14. ASSUME pc' # "done" \/ outcome' = "returned"
       PROVE  \A a \in stored' : a \in Shown(Planned') \/ \E k \in 1 .. Len(pending') : pending'[k] = a
  <2>1. \A a \in stored : a \in Shown(Planned) \/ \E k \in 1 .. Len(pending) : pending[k] = a
    BY <1>2, <1>11, <1>14 DEF ShowingInvariant
  <2> QED BY <1>10, <2>1
<1> HIDE DEF Shown, ShownOnce, Planned
<1>15. ShowingInvariant'
  BY <1>2, <1>9, <1>10, <1>11, <1>12, <1>13, <1>14 DEF ShowingInvariant
<1> QED BY <1>7, <1>15

Quiet(s) == s \in Seq(Events) /\ \A k \in 1 .. Len(s) : s[k].type # "artifactCreated"

LEMMA QuietConcat ==
  ASSUME NEW s, NEW t, Quiet(s), Quiet(t)
  PROVE  Quiet(s \o t)
<1>1. s \in Seq(Events) /\ t \in Seq(Events)
  BY DEF Quiet
<1>2. \A k \in 1 .. Len(s \o t) : \/ k \in 1 .. Len(s) /\ (s \o t)[k] = s[k]
                                  \/ k - Len(s) \in 1 .. Len(t) /\ (s \o t)[k] = t[k - Len(s)]
  BY <1>1
<1> QED BY <1>1, <1>2 DEF Quiet

LEMMA QuietEvents ==
  /\ Quiet(<<>>) /\ Quiet(Spoken)
  /\ \A type \in EventTypes \ {"artifactCreated"} : Quiet(<<Event(type)>>)
  /\ \A type \in EventTypes \ {"artifactCreated"}, call \in Nat \X Nat :
       Quiet(<<About(type, call)>>) /\ Quiet(<<Guarded(About(type, call))>>)
<1>1. Quiet(<<>>)
  BY DEF Quiet
<1>2. \A type \in EventTypes : Event(type) \in Events /\ Event(type).type = type
  <2>1. <<0, 0>> \in Nat \X Nat
    OBVIOUS
  <2> QED BY <2>1, EventFields
<1>3. \A e \in Events : e.type # "artifactCreated" => Quiet(<<e>>)
  BY DEF Quiet
<1>4. \A type \in EventTypes \ {"artifactCreated"} : Quiet(<<Event(type)>>)
  BY <1>2, <1>3
<1>5. \A type \in EventTypes \ {"artifactCreated"}, call \in Nat \X Nat :
        Quiet(<<About(type, call)>>) /\ Quiet(<<Guarded(About(type, call))>>)
  BY <1>3, EventFields
<1>6. Quiet(Spoken)
  <2>1. "delta" \in EventTypes \ {"artifactCreated"}
    BY DEF EventTypes
  <2> QED BY <1>1, <1>4, <2>1 DEF Spoken
<1> QED BY <1>1, <1>4, <1>5, <1>6

(* What the actions announce besides artifacts.                            *)
LEMMA QuietItems ==
  ASSUME iteration \in Nat, NEW names \in Seq(CalledNames), NEW call \in Nat \X Nat
  PROVE  /\ Quiet(<<Event("delta"), Event("COMPLETED")>>) /\ Quiet(<<Event("FAILED")>>)
         /\ \A text \in {<<>>, <<Event("delta")>>} :
              /\ Quiet(text)
              /\ Quiet(text \o <<Event("iterationCompleted")>>
                         \o (IF finalUsageMetadata THEN <<Event("COMPLETED")>> ELSE <<>>))
         /\ Quiet(Spoken \o <<About("toolStarted", call), Guarded(About("toolCompleted", call)),
                              Event("inputRequiredNotice"), Event("iterationCompleted"),
                              Event("INPUT_REQUIRED")>>)
         /\ Quiet(Spoken \o AllRefused(names) \o <<Event("iterationCompleted")>>)
         /\ Quiet(Spoken \o [i \in DOMAIN names |-> Guarded(About("toolStarted", Call(i)))])
<1>1. {"delta", "COMPLETED", "FAILED", "iterationCompleted", "toolStarted", "toolCompleted",
       "inputRequiredNotice", "INPUT_REQUIRED"} \subseteq EventTypes \ {"artifactCreated"}
  BY DEF EventTypes
<1>2. \A type \in {"delta", "COMPLETED", "FAILED", "iterationCompleted",
                   "inputRequiredNotice", "INPUT_REQUIRED"} : Quiet(<<Event(type)>>)
  BY <1>1, QuietEvents
<1>3. Quiet(<<About("toolStarted", call)>>) /\ Quiet(<<Guarded(About("toolCompleted", call))>>)
  BY <1>1, QuietEvents
<1>4. Quiet(<<Event("delta"), Event("COMPLETED")>>)
  BY <1>2 DEF Quiet
<1>5. ASSUME NEW text \in {<<>>, <<Event("delta")>>}
      PROVE  /\ Quiet(text)
             /\ Quiet(text \o <<Event("iterationCompleted")>>
                         \o (IF finalUsageMetadata THEN <<Event("COMPLETED")>> ELSE <<>>))
  <2>1. Quiet(text)
    BY <1>2, QuietEvents
  <2>2. Quiet(text \o <<Event("iterationCompleted")>>)
    BY <1>2, <2>1, QuietConcat
  <2>3. Quiet(IF finalUsageMetadata THEN <<Event("COMPLETED")>> ELSE <<>>)
    BY <1>2, QuietEvents
  <2> QED BY <2>1, <2>2, <2>3, QuietConcat
<1>6. Quiet(Spoken \o <<About("toolStarted", call), Guarded(About("toolCompleted", call)),
                       Event("inputRequiredNotice"), Event("iterationCompleted"),
                       Event("INPUT_REQUIRED")>>)
  <2>1. Quiet(<<About("toolStarted", call), Guarded(About("toolCompleted", call)),
                Event("inputRequiredNotice"), Event("iterationCompleted"), Event("INPUT_REQUIRED")>>)
    BY <1>2, <1>3 DEF Quiet
  <2> QED BY <2>1, QuietEvents, QuietConcat
<1>7. Quiet(Spoken \o AllRefused(names) \o <<Event("iterationCompleted")>>)
  <2>1. Quiet(AllRefused(names))
    <3>1. /\ AllRefused(names) \in Seq(Events) /\ Len(AllRefused(names)) = 3 * Len(names)
          /\ \A k \in 1 .. 3 * Len(names) :
               AllRefused(names)[k].type \in {"toolStarted", "toolFailed", "toolResult"}
      BY RefusedEvents
    <3> QED BY <3>1 DEF Quiet
  <2>2. Quiet(Spoken \o AllRefused(names))
    BY <2>1, QuietEvents, QuietConcat
  <2> QED BY <1>2, <2>2, QuietConcat
<1>8. Quiet(Spoken \o [i \in DOMAIN names |-> Guarded(About("toolStarted", Call(i)))])
  <2> DEFINE s == [i \in DOMAIN names |-> Guarded(About("toolStarted", Call(i)))]
  <2>1. /\ s \in Seq(Events) /\ Len(s) = Len(names)
        /\ \A i \in 1 .. Len(names) : s[i].type = "toolStarted"
    BY Announcements
  <2> HIDE DEF s
  <2>2. Quiet(s)
    BY <2>1 DEF Quiet
  <2>3. Quiet(Spoken \o s)
    BY <2>2, QuietEvents, QuietConcat
  <2> QED BY <2>3 DEF s
<1> QED BY <1>2, <1>4, <1>5, <1>6, <1>7, <1>8

(* The steps of the generator that leave all artifacts where they are.     *)
LEMMA QuietStepsKeepShowing ==
  ASSUME TypeInvariant, StreamTypes, ShowingInvariant, Streaming,
         \/ StreamBeforeAgent \/ StreamCallsModel \/ StreamModelAnswers \/ StreamAfterAgent
         \/ StreamDispatches
  PROVE  StreamTypes' /\ ShowingInvariant'
<1>1. /\ iteration \in Nat /\ dispatch \in Seq(Dispatched) /\ calls \in Seq(CalledNames)
      /\ awaited \in Nat
  BY ShowingFacts DEF StreamTypes
<1>2. /\ pc \notin {"tools", "awaiting", "done"} => pending = <<>> /\ AllSettled
      /\ outcome = "returned" => pc = "done"
      /\ pc = "dispatch" => awaited = 0
      /\ pc \in {"beforeModel", "model", "dispatch"} => \A i \in Nat : Call(i) \notin stored
      /\ \A i \in 1 .. Len(dispatch) : dispatch[i] = "running" => Call(i) \notin stored
  BY DEF ShowingInvariant
<1>3. UNCHANGED iteration => \A i \in Nat : Call(i)' = Call(i)
  BY DEF Call
<1>4. <<>> \in Seq(CalledNames) /\ <<0, 0>> \in Nat \X Nat
  OBVIOUS
<1>5. ASSUME NEW items, Quiet(items), out = <<>>, out' = items, UNCHANGED events
      PROVE  /\ items \in Seq(Events) /\ Adds(items)
             /\ \A k \in 1 .. Len(items) : items[k].type # "artifactCreated"
  BY <1>5 DEF Quiet, Adds
<1>6. CASE StreamBeforeAgent
  <2>1. /\ pc = "beforeAgent" /\ out = <<>> /\ pc' \in {"return", "iterate"}
        /\ UNCHANGED <<handler, iteration, dispatch, pending, stored, events, awaited, outcome>>
    BY <1>6 DEF StreamBeforeAgent, At, Yields, dispatchVars
  <2>2. Quiet(out')
    BY <1>1, <1>4, <1>6, QuietItems, QuietEvents DEF StreamBeforeAgent, Yields
  <2>3. AllSettled' /\ pending' = <<>>
    BY <1>2, <2>1 DEF AllSettled
  <2> QED BY <1>1, <1>2, <1>3, <1>5, <2>1, <2>2, <2>3, QuietKeepsShowing
<1>7. CASE StreamCallsModel
  <2>1. /\ pc = "beforeModel" /\ out = <<>> /\ pc' = "model" /\ out' = <<>>
        /\ UNCHANGED <<handler, iteration, dispatch, pending, stored, events, awaited, outcome>>
    BY <1>7 DEF StreamCallsModel, At, Yields, dispatchVars
  <2>2. Quiet(out')
    BY <2>1, QuietEvents
  <2>3. AllSettled' /\ pending' = <<>>
    BY <1>2, <2>1 DEF AllSettled
  <2>4. \A i \in Nat : Call(i)' \notin stored'
    BY <1>2, <1>3, <2>1
  <2> QED BY <1>1, <1>2, <1>3, <1>5, <2>1, <2>2, <2>3, <2>4, QuietKeepsShowing
<1>8. CASE StreamAnswersFinally
  <2>1. /\ pc \in {"beforeModel", "model"} /\ out = <<>> /\ pc' = "afterAgent"
        /\ UNCHANGED <<handler, iteration, dispatch, pending, stored, events, awaited, outcome>>
    BY <1>8 DEF StreamAnswersFinally, StreamAnswering, At, Yields, dispatchVars
  <2>2. Quiet(out')
    BY <1>1, <1>4, <1>8, QuietItems DEF StreamAnswersFinally, Yields
  <2>3. AllSettled' /\ pending' = <<>>
    BY <1>2, <2>1 DEF AllSettled
  <2> QED BY <1>1, <1>2, <1>3, <1>5, <2>1, <2>2, <2>3, QuietKeepsShowing
<1>9. ASSUME NEW names \in Completions, StreamAsksForInput(names)
      PROVE  StreamTypes' /\ ShowingInvariant'
  <2> DEFINE call == Call(SelectInSeq(names, LAMBDA n : n = INPUT_REQUIRED_TOOL))
  <2>1. /\ pc \in {"beforeModel", "model"} /\ out = <<>> /\ pc' = "return" /\ dispatch' = <<>>
        /\ UNCHANGED <<handler, iteration, pending, stored, events, awaited, outcome>>
    BY <1>9 DEF StreamAsksForInput, StreamAnswering, At, Yields
  <2>2. names \in Seq(CalledNames)
    BY CompletionsAre
  <2>3. call \in Nat \X Nat
    BY <1>1, <2>2, AskedPosition DEF Call
  <2>4. out' = Spoken \o <<About("toolStarted", call), Guarded(About("toolCompleted", call)),
                            Event("inputRequiredNotice"), Event("iterationCompleted"),
                            Event("INPUT_REQUIRED")>>
    BY <1>9 DEF StreamAsksForInput, Yields
  <2> HIDE DEF call
  <2>5. Quiet(out')
    BY <1>1, <2>2, <2>3, <2>4, QuietItems
  <2>6. AllSettled' /\ pending' = <<>>
    BY <1>2, <2>1 DEF AllSettled
  <2>7. Len(dispatch') = 0
    BY <2>1
  <2> QED BY <1>1, <1>2, <1>3, <1>5, <2>1, <2>5, <2>6, <2>7, QuietKeepsShowing
<1>10. ASSUME NEW names \in Completions, StreamAnswersWithoutTools(names)
       PROVE  StreamTypes' /\ ShowingInvariant'
  <2>1. /\ pc \in {"beforeModel", "model"} /\ out = <<>> /\ pc' = "iterate"
        /\ UNCHANGED <<handler, iteration, dispatch, pending, stored, events, awaited, outcome>>
    BY <1>10 DEF StreamAnswersWithoutTools, At, Yields, dispatchVars
  <2>2. Quiet(out')
    BY <1>1, <1>4, <1>10, CompletionsAre, QuietItems DEF StreamAnswersWithoutTools, Yields
  <2>3. AllSettled' /\ pending' = <<>>
    BY <1>2, <2>1 DEF AllSettled
  <2> QED BY <1>1, <1>2, <1>3, <1>5, <2>1, <2>2, <2>3, QuietKeepsShowing
<1>11. ASSUME NEW names \in Completions, StreamAnnouncesTools(names)
       PROVE  StreamTypes' /\ ShowingInvariant'
  <2>1. /\ pc \in {"beforeModel", "model"} /\ out = <<>> /\ pc' = "dispatch"
        /\ dispatch' = <<>> /\ awaited' = 0
        /\ UNCHANGED <<handler, iteration, pending, stored, events, outcome>>
    BY <1>11 DEF StreamAnnouncesTools, StreamAnswering, At, Yields
  <2>2. Quiet(out')
    BY <1>1, <1>4, <1>11, CompletionsAre, QuietItems DEF StreamAnnouncesTools, Yields
  <2>3. AllSettled' /\ pending' = <<>> /\ Len(dispatch') = 0
    BY <1>2, <2>1 DEF AllSettled
  <2>4. \A i \in Nat : Call(i)' \notin stored'
    BY <1>2, <1>3, <2>1
  <2> QED BY <1>1, <1>2, <1>3, <1>5, <2>1, <2>2, <2>3, <2>4, QuietKeepsShowing
<1>12. CASE StreamAfterAgent
  <2>1. /\ pc = "afterAgent" /\ out = <<>> /\ pc' = "return"
        /\ UNCHANGED <<handler, iteration, dispatch, pending, stored, events, awaited, outcome>>
    BY <1>12 DEF StreamAfterAgent, At, Yields, dispatchVars
  <2>2. Quiet(out')
    BY <1>1, <1>4, <1>12, QuietItems DEF StreamAfterAgent, Yields
  <2>3. AllSettled' /\ pending' = <<>>
    BY <1>2, <2>1 DEF AllSettled
  <2> QED BY <1>1, <1>2, <1>3, <1>5, <2>1, <2>2, <2>3, QuietKeepsShowing
<1>13. CASE StreamDispatches
  <2>1. /\ pc = "dispatch" /\ out = <<>> /\ pc' = "tools" /\ out' = <<>>
        /\ dispatch' = [i \in DOMAIN calls |-> "running"]
        /\ UNCHANGED <<handler, iteration, pending, stored, events, awaited, outcome>>
    BY <1>13 DEF StreamDispatches, At, Yields
  <2>2. Quiet(out')
    BY <2>1, QuietEvents
  <2>3. Len(dispatch') \in Nat /\ awaited' = 0
    BY <1>1, <1>2, <2>1
  <2>4. \A i \in Nat : Call(i)' \notin stored'
    BY <1>2, <1>3, <2>1
  <2> QED BY <1>1, <1>2, <1>3, <1>5, <2>1, <2>2, <2>3, <2>4, QuietKeepsShowing
<1> QED BY <1>6, <1>7, <1>8, <1>9, <1>10, <1>11, <1>12, <1>13 DEF StreamModelAnswers

(* The generator looks at the signal, the cap or the next of its calls.    *)
LEMMA ChecksKeepShowing ==
  ASSUME TypeInvariant, StreamTypes, ShowingInvariant, Streaming,
         StartStreaming \/ Iterate \/ AwaitTool \/ ToolAnswered
  PROVE  StreamTypes' /\ ShowingInvariant'
<1>1. /\ iteration \in Nat /\ dispatch \in Seq(Dispatched) /\ calls \in Seq(CalledNames)
      /\ awaited \in Nat
  BY ShowingFacts DEF StreamTypes
<1>2. /\ pc \notin {"tools", "awaiting", "done"} => pending = <<>> /\ AllSettled
      /\ pc = "tools" => \A i \in 1 .. awaited : i <= Len(dispatch) /\ dispatch[i] \in {"ok", "failed"}
      /\ pc = "awaiting" => /\ awaited \in 1 .. Len(dispatch)
                            /\ \A i \in 1 .. awaited - 1 : dispatch[i] \in {"ok", "failed"}
      /\ stored \subseteq (0 .. iteration) \X Nat
      /\ \A i \in 1 .. Len(dispatch) : dispatch[i] = "running" => Call(i) \notin stored
  BY DEF ShowingInvariant
<1>3. UNCHANGED iteration => \A i \in Nat : Call(i)' = Call(i)
  BY DEF Call
<1>4. <<0, 0>> \in Nat \X Nat /\ <<>> \in Seq(CalledNames)
  OBVIOUS
<1>5. ASSUME NEW items, Quiet(items), out = <<>>, out' = items, UNCHANGED events
      PROVE  /\ items \in Seq(Events) /\ Adds(items)
             /\ \A k \in 1 .. Len(items) : items[k].type # "artifactCreated"
  BY <1>5 DEF Quiet, Adds
<1>6. CASE StartStreaming
  <2>1. /\ pc = "start" /\ out = <<>>
        /\ UNCHANGED <<handler, iteration, dispatch, pending, stored, events, awaited>>
    BY <1>6 DEF StartStreaming, At, dispatchVars
  <2>2. CASE signal
    BY <1>6, <2>1, <2>2, EndKeepsShowing DEF StartStreaming
  <2>3. CASE ~signal
    <3>1. pc' = "beforeAgent" /\ out' = <<>> /\ UNCHANGED outcome
      BY <1>6, <2>3 DEF StartStreaming, Yields
    <3>2. Quiet(out') /\ AllSettled' /\ pending' = <<>>
      BY <1>2, <2>1, <3>1, QuietEvents DEF AllSettled
    <3> QED BY <1>1, <1>2, <1>3, <1>5, <2>1, <3>1, <3>2, QuietKeepsShowing
  <2> QED BY <2>2, <2>3
<1>7. CASE Iterate
  <2>1. /\ pc = "iterate" /\ out = <<>>
        /\ UNCHANGED <<handler, dispatch, pending, stored, events, awaited>>
    BY <1>7 DEF Iterate, At, dispatchVars
  <2>2. AllSettled' /\ pending' = <<>>
    BY <1>2, <2>1 DEF AllSettled
  <2>3. CASE Ends("aborted") /\ UNCHANGED iteration
    BY <2>1, <2>3, EndKeepsShowing
  <2>4. CASE Yields(<<Event("FAILED")>>, "return") /\ UNCHANGED iteration
    <3>1. pc' = "return" /\ Quiet(out') /\ UNCHANGED outcome
      BY <1>1, <1>4, <2>4, QuietItems DEF Yields
    <3> QED BY <1>1, <1>2, <1>3, <1>5, <2>1, <2>2, <2>4, <3>1, QuietKeepsShowing
  <2>5. CASE Yields(<<>>, "beforeModel") /\ iteration' = iteration + 1
    <3>1. pc' = "beforeModel" /\ Quiet(out') /\ UNCHANGED outcome
      BY <2>5, QuietEvents DEF Yields
    <3>2. \A i \in Nat : Call(i)' \notin stored'
      BY <1>1, <1>2, <2>1, <2>5 DEF Call
    <3>3. \A i \in 1 .. Len(dispatch') : dispatch'[i] # "running"
      BY <1>2, <2>1 DEF AllSettled
    <3> QED BY <1>1, <1>5, <2>1, <2>2, <2>5, <3>1, <3>2, <3>3, QuietKeepsShowing
  <2> QED BY <1>7, <2>3, <2>4, <2>5 DEF Iterate
<1>8. CASE AwaitTool
  <2>1. /\ pc = "tools" /\ out = <<>> /\ awaited < Len(dispatch)
        /\ UNCHANGED <<handler, iteration, dispatch, pending, stored, events>>
    BY <1>8 DEF AwaitTool, At, dispatchVars
  <2>2. CASE signal
    BY <1>8, <2>1, <2>2, EndKeepsShowing DEF AwaitTool
  <2>3. CASE ~signal
    <3>1. pc' = "awaiting" /\ out' = <<>> /\ UNCHANGED outcome /\ awaited' = awaited + 1
      BY <1>8, <2>3 DEF AwaitTool, Yields
    <3>2. /\ awaited' \in Nat /\ awaited' \in 1 .. Len(dispatch')
          /\ \A i \in 1 .. awaited' - 1 : dispatch'[i] \in {"ok", "failed"}
      BY <1>1, <1>2, <2>1, <3>1
    <3>3. Quiet(out')
      BY <3>1, QuietEvents
    <3>4. \A i \in 1 .. Len(dispatch') : dispatch'[i] = "running" => Call(i)' \notin stored'
      BY <1>1, <1>2, <1>3, <2>1
    <3>5. Adds(out') /\ \A k \in 1 .. Len(out') : out'[k].type # "artifactCreated"
      BY <1>5, <2>1, <3>3
    <3> QED BY <2>1, <3>1, <3>2, <3>3, <3>4, <3>5, QuietKeepsShowing DEF Quiet
  <2> QED BY <2>2, <2>3
<1>9. CASE ToolAnswered
  <2>1. /\ pc = "awaiting" /\ out = <<>> /\ Settled(awaited)
        /\ UNCHANGED <<handler, iteration, dispatch, pending, stored, events, awaited>>
    BY <1>9 DEF ToolAnswered, At, dispatchVars
  <2>2. CASE Ends("threw") \/ Ends("aborted")
    BY <2>1, <2>2, EndKeepsShowing
  <2>3. CASE dispatch[awaited] # "threw" /\ Yields(Reports(awaited), "tools")
    <3>1. pc' = "tools" /\ out' = Reports(awaited) /\ UNCHANGED outcome
      BY <2>3 DEF Yields
    <3>2. dispatch[awaited] \in {"ok", "failed"}
      BY <2>1, <2>3 DEF Settled
    <3>3. \A i \in 1 .. awaited' : i <= Len(dispatch') /\ dispatch'[i] \in {"ok", "failed"}
      BY <1>1, <1>2, <2>1, <3>2
    <3>4. Call(awaited) \in Nat \X Nat
      BY <1>1 DEF Call
    <3>5. {"toolCompleted", "toolFailed", "toolResult"} \subseteq EventTypes \ {"artifactCreated"}
      BY DEF EventTypes
    <3>6. /\ Quiet(<<About(IF dispatch[awaited] = "ok" THEN "toolCompleted" ELSE "toolFailed", Call(awaited))>>)
          /\ Quiet(<<About("toolResult", Call(awaited))>>)
      BY <3>4, <3>5, QuietEvents
    <3>7. Quiet(out')
      BY <3>1, <3>6 DEF Quiet, Reports
    <3> QED BY <1>1, <1>2, <1>3, <1>5, <2>1, <3>1, <3>3, <3>7, QuietKeepsShowing
  <2> QED BY <1>9, <2>2, <2>3 DEF ToolAnswered
<1> QED BY <1>6, <1>7, <1>8, <1>9

(* The end of a batch empties the slot into the stream.                    *)
LEMMA BatchEndKeepsShowing ==
  ASSUME TypeInvariant, StreamTypes, ShowingInvariant, Streaming, StreamBatchEnds
  PROVE  StreamTypes' /\ ShowingInvariant'
<1>1. /\ iteration \in Nat /\ dispatch \in Seq(Dispatched) /\ pending \in Seq(Artifacts)
      /\ awaited \in Nat /\ events \in Seq(Events)
  BY ShowingFacts DEF StreamTypes
<1>2. /\ pc = "tools" /\ out = <<>> /\ awaited = Len(dispatch) /\ pc' = "iterate" /\ pending' = <<>>
      /\ UNCHANGED <<handler, iteration, dispatch, stored, events, awaited, outcome>>
  BY DEF StreamBatchEnds, At, Yields
<1> DEFINE items == Append(ArtifactEvents, Event("iterationCompleted"))
<1>3. out' = items
  BY DEF StreamBatchEnds, Yields
<1>4. /\ ArtifactEvents \in Seq(Events) /\ Len(ArtifactEvents) = Len(pending)
      /\ \A i \in 1 .. Len(pending) : /\ ArtifactEvents[i].type = "artifactCreated"
                                      /\ ArtifactEvents[i].call = pending[i]
  BY <1>1, ArtifactEventsAre
<1>5. Event("iterationCompleted") \in Events /\ Event("iterationCompleted").type # "artifactCreated"
  <2>1. <<0, 0>> \in Nat \X Nat /\ "iterationCompleted" \in EventTypes
    BY DEF EventTypes
  <2> QED BY <2>1, EventFields
<1>6. /\ items \in Seq(Events) /\ Len(items) = Len(pending) + 1
      /\ \A i \in 1 .. Len(pending) : items[i].type = "artifactCreated" /\ items[i].call = pending[i]
      /\ items[Len(pending) + 1].type # "artifactCreated"
  BY <1>1, <1>4, <1>5
<1> HIDE DEF items
<1>7. /\ events' \in Seq(Events) /\ out' \in Seq(Events)
      /\ Planned = events /\ Planned' = events \o items
  BY <1>2, <1>3, <1>6, Added DEF Adds
<1>8. /\ ShownOnce(events) /\ Shown(events) \subseteq stored
      /\ stored \subseteq (0 .. iteration) \X Nat
      /\ \A i \in 1 .. Len(pending) : pending[i] \in stored \ Shown(events)
      /\ \A i, j \in 1 .. Len(pending) : pending[i] = pending[j] => i = j
      /\ \A a \in stored : a \in Shown(events) \/ \E i \in 1 .. Len(pending) : pending[i] = a
      /\ \A i \in 1 .. awaited : i <= Len(dispatch) /\ dispatch[i] \in {"ok", "failed"}
      /\ outcome # "returned"
  BY <1>2, <1>7 DEF ShowingInvariant
<1> DEFINE all == events \o items
<1>9. /\ Len(all) = Len(events) + Len(pending) + 1 /\ Len(events) \in Nat /\ Len(pending) \in Nat
      /\ \A p \in 1 .. Len(events) : all[p] = events[p]
      /\ \A i \in 1 .. Len(pending) + 1 : all[Len(events) + i] = items[i]
  <2> DEFINE s == events
             t == items
  <2>1. s \in Seq(Events) /\ t \in Seq(Events) /\ Len(t) = Len(pending) + 1
    BY <1>1, <1>6
  <2>2. Len(s) \in Nat /\ Len(pending) \in Nat
    BY <1>1
  <2> HIDE DEF s, t
  <2>3. Len(s \o t) = Len(s) + Len(t) /\ \A p \in 1 .. Len(s) : (s \o t)[p] = s[p]
    BY <2>1
  <2>4. ASSUME NEW i \in 1 .. Len(t) PROVE (s \o t)[Len(s) + i] = t[i]
    BY <2>1
  <2> QED BY <2>1, <2>2, <2>3, <2>4 DEF s, t
<1> HIDE DEF all
<1>10. \A p : p \in Says(all, "artifactCreated") <=>
                \/ p \in Says(events, "artifactCreated")
                \/ \E i \in 1 .. Len(pending) : p = Len(events) + i
  <2>1. ASSUME NEW p \in Says(all, "artifactCreated")
        PROVE  \/ p \in Says(events, "artifactCreated")
               \/ \E i \in 1 .. Len(pending) : p = Len(events) + i
    <3>1. CASE p \in 1 .. Len(events)
      BY <1>9, <2>1, <3>1 DEF Says
    <3>2. CASE p \notin 1 .. Len(events)
      <4>1. p - Len(events) \in 1 .. Len(pending) + 1 /\ p = Len(events) + (p - Len(events))
        BY <1>9, <2>1, <3>2 DEF Says
      <4>2. p - Len(events) # Len(pending) + 1
        BY <1>6, <1>9, <2>1, <4>1 DEF Says
      <4>3. p - Len(events) \in 1 .. Len(pending)
        BY <1>9, <4>1, <4>2
      <4> QED BY <4>1, <4>3
    <3> QED BY <3>1, <3>2
  <2>2. ASSUME NEW p \in Says(events, "artifactCreated") PROVE p \in Says(all, "artifactCreated")
    BY <1>9, <2>2 DEF Says
  <2>3. ASSUME NEW i \in 1 .. Len(pending) PROVE Len(events) + i \in Says(all, "artifactCreated")
    BY <1>6, <1>9 DEF Says
  <2> QED BY <2>1, <2>2, <2>3
<1>11. \A i \in 1 .. Len(pending) : all[Len(events) + i].call = pending[i]
  BY <1>6, <1>9
<1>12. Shown(all) = Shown(events) \cup {pending[i] : i \in 1 .. Len(pending)}
  <2>1. \A p \in Says(events, "artifactCreated") : all[p] = events[p]
    BY <1>9 DEF Says
  <2> QED BY <1>10, <1>11, <2>1 DEF Shown
<1>13. ShownOnce(all)
  <2> SUFFICES ASSUME NEW p \in Says(all, "artifactCreated"), NEW q \in Says(all, "artifactCreated"),
                      all[p].call = all[q].call
               PROVE  p = q
    BY DEF ShownOnce
  <2>1. \A r \in Says(events, "artifactCreated") : all[r] = events[r] /\ all[r].call \in Shown(events)
    BY <1>9 DEF Says, Shown
  <2>2. CASE p \in Says(events, "artifactCreated") /\ q \in Says(events, "artifactCreated")
    BY <1>8, <2>1, <2>2 DEF ShownOnce
  <2>3. CASE p \in Says(events, "artifactCreated") /\ \E i \in 1 .. Len(pending) : q = Len(events) + i
    <3>1. PICK i \in 1 .. Len(pending) : q = Len(events) + i
      BY <2>3
    <3>2. all[p].call \in Shown(events) /\ all[q].call = pending[i] /\ pending[i] \notin Shown(events)
      BY <1>8, <1>11, <2>1, <2>3, <3>1
    <3> QED BY <3>2
  <2>4. CASE q \in Says(events, "artifactCreated") /\ \E i \in 1 .. Len(pending) : p = Len(events) + i
    <3>1. PICK i \in 1 .. Len(pending) : p = Len(events) + i
      BY <2>4
    <3>2. all[q].call \in Shown(events) /\ all[p].call = pending[i] /\ pending[i] \notin Shown(events)
      BY <1>8, <1>11, <2>1, <2>4, <3>1
    <3> QED BY <3>2
  <2>5. CASE (\E i \in 1 .. Len(pending) : p = Len(events) + i) /\ \E i \in 1 .. Len(pending) : q = Len(events) + i
    <3>1. PICK i \in 1 .. Len(pending) : p = Len(events) + i
      BY <2>5
    <3>2. PICK j \in 1 .. Len(pending) : q = Len(events) + j
      BY <2>5
    <3>3. pending[i] = pending[j]
      BY <1>11, <3>1, <3>2
    <3>4. i = j
      BY <1>8, <3>3
    <3> QED BY <3>1, <3>2, <3>4
  <2>6. /\ p \in Says(events, "artifactCreated") \/ \E i \in 1 .. Len(pending) : p = Len(events) + i
        /\ q \in Says(events, "artifactCreated") \/ \E i \in 1 .. Len(pending) : q = Len(events) + i
    BY <1>10
  <2> QED BY <2>2, <2>3, <2>4, <2>5, <2>6
<1>14. StreamTypes'
  BY <1>1, <1>2, <1>7 DEF StreamTypes
<1>15. AllSettled' /\ Len(pending') = 0
  <2>1. /\ \A i \in 1 .. awaited : dispatch[i] \in {"ok", "failed"}
        /\ awaited = Len(dispatch) /\ dispatch' = dispatch
    BY <1>2, <1>8
  <2>2. Len(pending') = 0
    BY <1>2
  <2> QED BY <2>1, <2>2 DEF AllSettled
<1>16. Shown(all) \subseteq stored /\ \A a \in stored : a \in Shown(all)
  <2>1. /\ Shown(events) \subseteq stored
        /\ \A i \in 1 .. Len(pending) : pending[i] \in stored
        /\ \A a \in stored : a \in Shown(events) \/ \E i \in 1 .. Len(pending) : pending[i] = a
    BY <1>8
  <2> QED BY <1>12, <2>1
<1>17. \A i \in 1 .. Len(dispatch') : dispatch'[i] # "running"
  BY <1>15 DEF AllSettled
<1>18. Planned' = all
  BY <1>7 DEF all
<1>19. /\ ShownOnce(Planned') /\ Shown(Planned') \subseteq stored'
       /\ \A a \in stored' : a \in Shown(Planned')
  BY <1>2, <1>13, <1>16, <1>18
<1>20. stored' \subseteq (0 .. iteration') \X Nat /\ outcome' # "returned" /\ pending' = <<>>
  BY <1>2, <1>8
<1>21. ShowingInvariant'
  BY <1>2, <1>15, <1>17, <1>19, <1>20 DEF ShowingInvariant, ShownOnce, Shown, Says
<1> QED BY <1>14, <1>21

(* The consumer takes the next event, or is not given it any more.         *)
LEMMA PullKeepsShowing ==
  ASSUME TypeInvariant, StreamTypes, ShowingInvariant, Streaming, Pull
  PROVE  StreamTypes' /\ ShowingInvariant'
<1>1. UNCHANGED <<handler, iteration, dispatch, pending, stored, awaited>> /\ out # <<>>
  BY DEF Pull, dispatchVars
<1>2. CASE Head(out).guarded /\ signal
  BY <1>1, <1>2, EndKeepsShowing DEF Pull
<1>3. CASE ~(Head(out).guarded /\ signal)
  <2>1. HandsOver /\ UNCHANGED <<pc, outcome>>
    BY <1>1, <1>3 DEF Pull, HandsOver
  <2>2. events' \in Seq(Events) /\ out' \in Seq(Events) /\ Planned' = Planned
    BY <2>1, HandedOver
  <2>3. StreamTypes'
    BY <1>1, <2>2 DEF StreamTypes
  <2>4. \A i \in Nat : Call(i)' = Call(i)
    BY <1>1 DEF Call
  <2>5. pc # "done"
    BY <1>1 DEF ShowingInvariant
  <2>6. AllSettled' = AllSettled /\ Len(dispatch) \in Nat
    BY <1>1, ShowingFacts DEF AllSettled
  <2>7. \A i \in 1 .. Len(dispatch) : Call(i)' = Call(i)
    BY <2>4, <2>6
  <2> HIDE DEF Shown, ShownOnce, Planned, AllSettled
  <2>8. ShowingInvariant'
    BY <1>1, <2>1, <2>2, <2>4, <2>5, <2>6, <2>7 DEF ShowingInvariant
  <2> QED BY <2>3, <2>8
<1> QED BY <1>2, <1>3

LEMMA ReturnKeepsShowing ==
  ASSUME TypeInvariant, StreamTypes, ShowingInvariant, Streaming, StreamReturnsAtLast
  PROVE  StreamTypes' /\ ShowingInvariant'
<1>1. /\ pc = "return" /\ out = <<>> /\ out' = <<>> /\ pc' = "done" /\ outcome' = "returned"
      /\ UNCHANGED <<handler, iteration, dispatch, pending, stored, events, awaited>>
  BY DEF StreamReturnsAtLast, At, Ends, dispatchVars
<1>2. StreamTypes' /\ Planned' = Planned
  BY <1>1 DEF StreamTypes, Planned
<1>3. \A i \in Nat : Call(i)' = Call(i)
  BY <1>1 DEF Call
<1>4. AllSettled' = AllSettled /\ Len(dispatch) \in Nat
  BY <1>1, ShowingFacts DEF AllSettled
<1>5. Shown(Planned') = Shown(Planned) /\ ShownOnce(Planned') = ShownOnce(Planned)
  BY <1>2
<1>6. /\ stored \subseteq (0 .. iteration) \X Nat
      /\ pending = <<>> /\ AllSettled /\ dispatch \in Seq(Dispatched)
      /\ ShownOnce(Planned) /\ Shown(Planned) \subseteq stored
      /\ \A a \in stored : a \in Shown(Planned)
  BY <1>1, ShowingFacts DEF ShowingInvariant
<1>7. /\ Len(pending) = 0
      /\ \A i \in 1 .. Len(dispatch) : dispatch[i] # "running"
  BY <1>6 DEF AllSettled
<1> HIDE DEF Shown, ShownOnce, Planned, AllSettled
<1>8. ShowingInvariant'
  BY <1>1, <1>2, <1>4, <1>6, <1>7 DEF ShowingInvariant
<1> QED BY <1>2, <1>8

LEMMA StreamingKeepsShowing ==
  ASSUME TypeInvariant, StreamTypes, ShowingInvariant, StreamingNext
  PROVE  StreamTypes' /\ ShowingInvariant'
<1>1. Streaming
  BY StreamingStaysStreaming
<1>2. CASE CallbackThrows
  <2>1. Ends("threw") /\ UNCHANGED <<handler, iteration, dispatch, pending, stored, events, awaited>>
    BY <1>2 DEF CallbackThrows, dispatchVars
  <2> QED BY <1>1, <2>1, EndKeepsShowing
<1>3. CASE StreamModelFails
  <2>1. /\ Ends(IF signal THEN "aborted" ELSE "threw")
        /\ UNCHANGED <<handler, iteration, dispatch, pending, stored, events, awaited>>
    BY <1>3 DEF StreamModelFails, dispatchVars
  <2>2. (IF signal THEN "aborted" ELSE "threw") # "returned"
    OBVIOUS
  <2> QED BY <1>1, <2>1, <2>2, EndKeepsShowing
<1>4. CASE CloseGenerator
  <2>1. Ends("closed") /\ UNCHANGED <<handler, iteration, dispatch, pending, stored, events, awaited>>
    BY <1>4 DEF CloseGenerator, dispatchVars
  <2> QED BY <1>1, <2>1, EndKeepsShowing
<1>5. CASE UnhandledRejection
  <2>1. Ends("crashed") /\ UNCHANGED <<handler, iteration, dispatch, pending, stored, events, awaited>>
    BY <1>5 DEF UnhandledRejection, dispatchVars
  <2> QED BY <1>1, <2>1, EndKeepsShowing
<1> QED BY <1>1, <1>2, <1>3, <1>4, <1>5, PullKeepsShowing, QuietStepsKeepShowing, ChecksKeepShowing,
           BatchEndKeepsShowing, ReturnKeepsShowing, ToolStepKeepsShowing DEF StreamingNext

SilentBackground == Background => events = <<>> /\ out = <<>>

LEMMA StreamsBegin == Init => StreamTypes /\ ShowingInvariant /\ SilentBackground
<1> SUFFICES ASSUME Init PROVE StreamTypes /\ ShowingInvariant /\ SilentBackground
  OBVIOUS
<1>1. /\ pc = "start" /\ iteration = 0 /\ dispatch = <<>> /\ pending = <<>> /\ stored = {}
      /\ outcome = "none" /\ out = <<>> /\ events = <<>> /\ awaited = 0
  BY Zenon DEF Init, AgentInit, StreamingInit
<1>2. <<>> \in Seq(Events) /\ Len(<<>>) = 0 /\ <<>> \o <<>> = <<>>
  OBVIOUS
<1>3. Says(Planned, "artifactCreated") = {}
  BY <1>1, <1>2 DEF Planned, Says
<1>4. ShownOnce(Planned) /\ Shown(Planned) = {}
  BY <1>3 DEF ShownOnce, Shown
<1>5. AllSettled
  BY <1>1, <1>2 DEF AllSettled
<1> HIDE DEF Shown, ShownOnce, Planned, AllSettled
<1>6. ShowingInvariant
  BY <1>1, <1>2, <1>4, <1>5 DEF ShowingInvariant
<1> QED BY <1>1, <1>2, <1>6 DEF StreamTypes, SilentBackground

LEMMA StreamsStay ==
  ASSUME TypeInvariant, StreamTypes, ShowingInvariant, SilentBackground, [Next]_vars
  PROVE  StreamTypes' /\ ShowingInvariant' /\ SilentBackground'
<1>1. CASE UNCHANGED <<handler, pc, iteration, dispatch, pending, stored, outcome, streamingVars>>
  <2>1. /\ UNCHANGED <<handler, pc, iteration, dispatch, pending, stored, outcome, out, events, awaited>>
        /\ Planned' = Planned /\ AllSettled' = AllSettled
    BY <1>1 DEF streamingVars, Planned, AllSettled
  <2>2. StreamTypes' /\ SilentBackground'
    BY <2>1 DEF StreamTypes, SilentBackground, Background
  <2>3. \A i : Call(i)' = Call(i)
    BY <2>1 DEF Call
  <2> HIDE DEF Shown, ShownOnce, Planned, AllSettled
  <2>4. ShowingInvariant'
    BY <2>1, <2>3 DEF ShowingInvariant, Streaming
  <2> QED BY <2>2, <2>4
<1>2. CASE AbortRun
  BY <1>1, <1>2 DEF AbortRun, Abort, dispatchVars
<1>3. CASE UNCHANGED vars
  BY <1>1, <1>3 DEF vars, agentVars, dispatchVars
<1>4. CASE BackgroundNext /\ UNCHANGED streamingVars
  <2>1. Background
    BY <1>4 DEF BackgroundNext, StartBackground, BeforeAgent, CallModel, ModelFails, ModelAnswers,
         AnswersFinally, AsksForInput, AnswersWithoutTools, DispatchTools, Answering, AfterAgent,
         BatchRejected, BatchEnds
  <2>2. handler' = "background"
    BY <1>4, <2>1 DEF BackgroundNext, StartBackground, BeforeAgent, CallModel, ModelFails, ModelAnswers,
         AnswersFinally, AsksForInput, AnswersWithoutTools, DispatchTools, Answering, AfterAgent,
         BatchRejected, BatchEnds, ToolStep, Background
  <2> QED BY <1>4, <2>1, <2>2 DEF streamingVars, StreamTypes, ShowingInvariant, SilentBackground,
                                  Streaming, Background
<1>5. CASE StreamingNext
  BY <1>5, StreamingKeepsShowing, StreamingStaysStreaming DEF SilentBackground, Streaming, Background
<1> QED BY <1>2, <1>3, <1>4, <1>5 DEF Next

LEMMA StreamsAlways == Spec => [](StreamTypes /\ ShowingInvariant /\ SilentBackground)
BY StreamsBegin, StreamsStay, TypesAlways, PTL DEF Spec

(* A stream shows no artifact twice and none that was not stored, and one  *)
(* that returned has shown them all.                                       *)
THEOREM ArtifactsAreShown == Spec => []ArtifactsStreamed
<1>1. TypeInvariant /\ StreamTypes /\ ShowingInvariant /\ SilentBackground => ArtifactsStreamed
  <2> SUFFICES ASSUME TypeInvariant, StreamTypes, ShowingInvariant, SilentBackground
               PROVE  ArtifactsStreamed
    OBVIOUS
  <2>1. DOMAIN events = 1 .. Len(events)
    BY DEF StreamTypes
  <2>2. Told("artifactCreated") = Says(events, "artifactCreated")
    BY <2>1 DEF Told, Says
  <2>3. ShownOnce(events) /\ Shown(events) \subseteq stored
    <3>1. CASE Background
      <4>1. Says(events, "artifactCreated") = {}
        BY <3>1 DEF SilentBackground, Says
      <4> QED BY <4>1 DEF ShownOnce, Shown
    <3>2. CASE Streaming
      BY <3>2, ShownPrefix DEF StreamTypes, ShowingInvariant, Planned
    <3> QED BY <3>1, <3>2 DEF TypeInvariant, Background, Streaming
  <2>4. ASSUME Streaming, outcome = "returned" PROVE Shown(events) = stored
    <3>1. out = <<>> /\ pending = <<>>
      BY <2>4 DEF ShowingInvariant
    <3>2. Planned = events /\ Len(pending) = 0
      BY <3>1 DEF Planned, StreamTypes
    <3>3. \A a \in stored : a \in Shown(Planned) \/ \E i \in 1 .. Len(pending) : pending[i] = a
      BY <2>4 DEF ShowingInvariant
    <3>4. \A a \in stored : a \in Shown(events)
      BY <3>2, <3>3
    <3> HIDE DEF Shown
    <3> QED BY <2>3, <3>4
  <2> QED BY <2>2, <2>3, <2>4 DEF ArtifactsStreamed, ShownOnce, Shown
<1> QED BY <1>1, TypesAlways, StreamsAlways, PTL
-----------------------------------------------------------------------------
(* EventsInOrder.                                                          *)

Verdicts == {"toolCompleted", "toolFailed"}
ToolTypes == Verdicts \cup {"toolStarted", "toolResult"}
Telling == ToolTypes \cup {"artifactCreated", "iterationCompleted"}

(* Calls of earlier iterations come first, then those of earlier places.   *)
Lex(c, d) == c[1] < d[1] \/ (c[1] = d[1] /\ c[2] < d[2])

(* The calls that events of a type before position p are about.            *)
Earlier(s, p, type) == {s[q].call : q \in {r \in 1 .. p - 1 : s[r].type = type}}
Named(s, type) == Earlier(s, Len(s) + 1, type)

(* The event at p fits what was told before it.                            *)
Follows(s, p) ==
  /\ s[p].type \in {"toolStarted", "toolResult"} =>
       \A c \in Earlier(s, p, s[p].type) : Lex(c, s[p].call)
  /\ s[p].type = "toolResult" =>
       /\ s[p].call \in Earlier(s, p, "toolStarted")
       /\ \A c \in Earlier(s, p, "toolStarted") :
            Lex(c, s[p].call) => c \in Earlier(s, p, "toolResult")
       /\ p > 1 /\ s[p - 1].type \in Verdicts /\ s[p - 1].call = s[p].call
  /\ s[p].type = "artifactCreated" => s[p].call \in Earlier(s, p, "toolResult")
  /\ s[p].type = "iterationCompleted" =>
       Earlier(s, p, "toolStarted")
         \subseteq Earlier(s, p, "toolCompleted") \cup Earlier(s, p, "toolFailed")

Orderly(s) == \A p \in 1 .. Len(s) : Follows(s, p)

(* The k-th event of t fits what s and t told before it.                   *)
FollowsOn(s, t, k) ==
  LET heard(type) == Named(s, type) \cup Earlier(t, k, type)
  IN  /\ t[k].type \in {"toolStarted", "toolResult"} =>
           \A c \in heard(t[k].type) : Lex(c, t[k].call)
      /\ t[k].type = "toolResult" =>
           /\ t[k].call \in heard("toolStarted")
           /\ \A c \in heard("toolStarted") : Lex(c, t[k].call) => c \in heard("toolResult")
           /\ k > 1 /\ t[k - 1].type \in Verdicts /\ t[k - 1].call = t[k].call
      /\ t[k].type = "artifactCreated" => t[k].call \in heard("toolResult")
      /\ t[k].type = "iterationCompleted" =>
           heard("toolStarted") \subseteq heard("toolCompleted") \cup heard("toolFailed")

LEMMA EarlierConcat ==
  ASSUME NEW s \in Seq(Events), NEW t \in Seq(Events)
  PROVE  /\ \A type : \A p \in 1 .. Len(s) + 1 : Earlier(s \o t, p, type) = Earlier(s, p, type)
         /\ \A type : \A k \in 1 .. Len(t) + 1 :
              Earlier(s \o t, Len(s) + k, type) = Named(s, type) \cup Earlier(t, k, type)
         /\ \A type : Named(s \o t, type) = Named(s, type) \cup Named(t, type)
<1> DEFINE st == s \o t
<1>1. Len(s) \in Nat /\ Len(t) \in Nat /\ Len(st) = Len(s) + Len(t)
  OBVIOUS
<1>2. \A p \in 1 .. Len(s) : st[p] = s[p]
  OBVIOUS
<1>3. \A k \in 1 .. Len(t) : st[Len(s) + k] = t[k]
  OBVIOUS
<1> HIDE DEF st
<1>4. ASSUME NEW p \in 1 .. Len(s) + 1, NEW type PROVE Earlier(st, p, type) = Earlier(s, p, type)
  <2>1. \A q \in 1 .. p - 1 : st[q] = s[q]
    BY <1>1, <1>2
  <2> QED BY <2>1 DEF Earlier
<1>5. ASSUME NEW k \in 1 .. Len(t) + 1, NEW type
      PROVE  Earlier(st, Len(s) + k, type) = Named(s, type) \cup Earlier(t, k, type)
  <2>1. ASSUME NEW q \in 1 .. Len(s) + k - 1, q > Len(s)
        PROVE  q - Len(s) \in 1 .. k - 1 /\ st[q] = t[q - Len(s)]
    <3>1. q - Len(s) \in 1 .. k - 1 /\ q - Len(s) \in 1 .. Len(t) /\ q = Len(s) + (q - Len(s))
      BY <1>1, <2>1
    <3> QED BY <1>3, <3>1
  <2>2. ASSUME NEW q \in 1 .. k - 1
        PROVE  Len(s) + q \in 1 .. Len(s) + k - 1 /\ st[Len(s) + q] = t[q]
    BY <1>1, <1>3
  <2>3. ASSUME NEW q \in 1 .. Len(s) PROVE q \in 1 .. Len(s) + k - 1 /\ st[q] = s[q]
    BY <1>1, <1>2
  <2>4. ASSUME NEW c \in Earlier(st, Len(s) + k, type) PROVE c \in Named(s, type) \cup Earlier(t, k, type)
    <3>1. PICK q \in 1 .. Len(s) + k - 1 : st[q].type = type /\ c = st[q].call
      BY <2>4 DEF Earlier
    <3>2. CASE q > Len(s)
      BY <2>1, <3>1, <3>2 DEF Earlier
    <3>3. CASE ~(q > Len(s))
      <4>1. q \in 1 .. Len(s) + 1 - 1
        BY <1>1, <3>3
      <4> QED BY <1>1, <2>3, <3>1, <4>1 DEF Earlier, Named
    <3> QED BY <3>2, <3>3
  <2>5. ASSUME NEW c \in Named(s, type) PROVE c \in Earlier(st, Len(s) + k, type)
    <3>1. PICK q \in 1 .. Len(s) : s[q].type = type /\ c = s[q].call
      BY <1>1, <2>5 DEF Earlier, Named
    <3> QED BY <2>3, <3>1 DEF Earlier
  <2>6. ASSUME NEW c \in Earlier(t, k, type) PROVE c \in Earlier(st, Len(s) + k, type)
    <3>1. PICK q \in 1 .. k - 1 : t[q].type = type /\ c = t[q].call
      BY <2>6 DEF Earlier
    <3>2. Len(s) + q \in 1 .. Len(s) + k - 1 /\ st[Len(s) + q] = t[q]
      BY <2>2
    <3> QED BY <3>1, <3>2 DEF Earlier
  <2> QED BY <2>4, <2>5, <2>6
<1>6. ASSUME NEW type PROVE Named(st, type) = Named(s, type) \cup Named(t, type)
  <2>1. Len(t) + 1 \in 1 .. Len(t) + 1 /\ Len(st) + 1 = Len(s) + (Len(t) + 1)
    BY <1>1
  <2> QED BY <1>5, <2>1 DEF Named
<1> QED BY <1>4, <1>5, <1>6 DEF st

LEMMA NamedConcat ==
  ASSUME NEW s \in Seq(Events), NEW t \in Seq(Events), NEW type
  PROVE  Named(s \o t, type) = Named(s, type) \cup Named(t, type)
BY EarlierConcat

LEMMA OrderlyPrefix ==
  ASSUME NEW s \in Seq(Events), NEW t \in Seq(Events)
  PROVE  /\ Orderly(s \o t) => Orderly(s)
         /\ \A type : Named(s, type) \subseteq Named(s \o t, type)
<1>1. ASSUME NEW p \in 1 .. Len(s), Follows(s \o t, p) PROVE Follows(s, p)
  <2>1. (s \o t)[p] = s[p] /\ (p > 1 => (s \o t)[p - 1] = s[p - 1])
    OBVIOUS
  <2>2. \A type : Earlier(s \o t, p, type) = Earlier(s, p, type)
    <3>1. p \in 1 .. Len(s) + 1
      OBVIOUS
    <3> QED BY <3>1, EarlierConcat
  <2> QED BY <1>1, <2>1, <2>2 DEF Follows
<1>2. \A p \in 1 .. Len(s) : p \in 1 .. Len(s \o t)
  OBVIOUS
<1> QED BY <1>1, <1>2, EarlierConcat DEF Orderly

LEMMA OrderlyConcat ==
  ASSUME NEW s \in Seq(Events), NEW t \in Seq(Events), Orderly(s),
         \A k \in 1 .. Len(t) : FollowsOn(s, t, k)
  PROVE  Orderly(s \o t)
<1> SUFFICES ASSUME NEW p \in 1 .. Len(s \o t) PROVE Follows(s \o t, p)
  BY DEF Orderly
<1>1. CASE p <= Len(s)
  <2>1. p \in 1 .. Len(s) /\ p \in 1 .. Len(s) + 1
    BY <1>1
  <2>2. (s \o t)[p] = s[p] /\ (p > 1 => (s \o t)[p - 1] = s[p - 1])
    BY <2>1
  <2>3. \A type : Earlier(s \o t, p, type) = Earlier(s, p, type)
    BY <2>1, EarlierConcat
  <2>4. Follows(s, p)
    BY <2>1 DEF Orderly
  <2> QED BY <2>2, <2>3, <2>4 DEF Follows
<1>2. CASE ~(p <= Len(s))
  <2>1. PICK k \in 1 .. Len(t) : p = Len(s) + k
    <3>1. p - Len(s) \in 1 .. Len(t) /\ p = Len(s) + (p - Len(s))
      BY <1>2
    <3> QED BY <3>1
  <2>2. /\ k \in 1 .. Len(t) + 1 /\ Len(s) \in Nat /\ (k > 1 => p > 1)
        /\ (s \o t)[p] = t[k] /\ (k > 1 => (s \o t)[p - 1] = t[k - 1])
    BY <2>1
  <2>3. \A type : Earlier(s \o t, p, type) = Named(s, type) \cup Earlier(t, k, type)
    <3>1. k \in 1 .. Len(t) + 1
      BY <2>2
    <3>2. \A type : Earlier(s \o t, Len(s) + k, type) = Named(s, type) \cup Earlier(t, k, type)
      BY <3>1, EarlierConcat
    <3> QED BY <2>1, <3>2
  <2>4. FollowsOn(s, t, k)
    BY <2>1
  <2> QED BY <2>2, <2>3, <2>4 DEF Follows, FollowsOn
<1> QED BY <1>1, <1>2

LEMMA NamedCalls ==
  ASSUME NEW s \in Seq(Events)
  PROVE  /\ \A type : Named(s, type) \subseteq Nat \X Nat
         /\ \A p \in 1 .. Len(s) : s[p].call \in Named(s, s[p].type)
<1>1. ASSUME NEW q \in 1 .. Len(s) PROVE s[q].call \in Nat \X Nat
  <2>1. s[q] \in Events
    OBVIOUS
  <2> QED BY <2>1 DEF Events
<1>2. Len(s) + 1 - 1 = Len(s)
  OBVIOUS
<1> QED BY <1>1, <1>2 DEF Named, Earlier

(* A result follows a verdict on its call.                                 *)
LEMMA ResultsHaveVerdicts ==
  ASSUME NEW s \in Seq(Events), Orderly(s)
  PROVE  Named(s, "toolResult") \subseteq Named(s, "toolCompleted") \cup Named(s, "toolFailed")
<1> SUFFICES ASSUME NEW c \in Named(s, "toolResult")
             PROVE  c \in Named(s, "toolCompleted") \cup Named(s, "toolFailed")
  OBVIOUS
<1>1. PICK p \in 1 .. Len(s) : s[p].type = "toolResult" /\ s[p].call = c
  BY DEF Named, Earlier
<1>2. p > 1 /\ s[p - 1].type \in Verdicts /\ s[p - 1].call = c
  BY <1>1 DEF Orderly, Follows
<1>3. p - 1 \in 1 .. Len(s)
  BY <1>2
<1> QED BY <1>2, <1>3, NamedCalls DEF Verdicts

LEMMA LexCalls ==
  ASSUME iteration \in Nat
  PROVE  /\ \A i, j \in Nat : Lex(Call(i), Call(j)) <=> i < j
         /\ \A c : \A i \in Nat : c[1] < iteration => Lex(c, Call(i))
         /\ \A i \in Nat : Call(i) \in Nat \X Nat /\ Call(i)[1] = iteration
BY DEF Lex, Call

LEMMA Associates ==
  ASSUME NEW s \in Seq(Events), NEW a \in Seq(Events), NEW b \in Seq(Events)
  PROVE  s \o (a \o b) = (s \o a) \o b
BY ConcatAssociative

(* Texts and statuses tell nothing about calls.                            *)
Mute(t) == t \in Seq(Events) /\ \A k \in 1 .. Len(t) : t[k].type \notin Telling

(* The same calls with the same fates.                                     *)
ToldAlike(s, t) == \A type \in ToolTypes : Named(t, type) = Named(s, type)

LEMMA MuteFollows ==
  ASSUME NEW s \in Seq(Events), NEW t, Mute(t), Orderly(s)
  PROVE  s \o t \in Seq(Events) /\ Orderly(s \o t) /\ ToldAlike(s, s \o t)
<1>1. t \in Seq(Events) /\ \A k \in 1 .. Len(t) : t[k].type \notin Telling
  BY DEF Mute
<1>2. \A k \in 1 .. Len(t) : FollowsOn(s, t, k)
  BY <1>1 DEF FollowsOn, Telling, ToolTypes
<1>3. \A type \in ToolTypes : Named(t, type) = {}
  <2>1. \A q \in 1 .. Len(t) + 1 - 1 : t[q].type \notin ToolTypes
    BY <1>1 DEF Telling
  <2> QED BY <2>1 DEF Named, Earlier
<1>4. \A type \in ToolTypes : Named(s \o t, type) = Named(s, type)
  <2>1. \A type : Named(s \o t, type) = Named(s, type) \cup Named(t, type)
    BY <1>1, NamedConcat
  <2> QED BY <1>3, <2>1
<1>5. s \o t \in Seq(Events)
  BY <1>1
<1> QED BY <1>1, <1>2, <1>4, <1>5, OrderlyConcat DEF ToldAlike

LEMMA MuteEvents ==
  /\ Mute(<<>>) /\ Mute(Spoken)
  /\ \A type \in EventTypes \ Telling : Mute(<<Event(type)>>)
  /\ Mute(<<Event("delta"), Event("COMPLETED")>>)
<1>1. \A type \in EventTypes : Event(type) \in Events /\ Event(type).type = type
  <2>1. <<0, 0>> \in Nat \X Nat
    OBVIOUS
  <2> QED BY <2>1, EventFields
<1>2. \A e \in Events : e.type \notin Telling => Mute(<<e>>)
  BY DEF Mute
<1>3. Mute(<<>>)
  BY DEF Mute
<1>4. \A type \in EventTypes \ Telling : Mute(<<Event(type)>>)
  BY <1>1, <1>2
<1>5. {"delta", "COMPLETED"} \subseteq EventTypes \ Telling
  BY DEF EventTypes, Telling, ToolTypes, Verdicts
<1>6. Mute(Spoken)
  BY <1>3, <1>4, <1>5 DEF Spoken
<1>7. Mute(<<Event("delta"), Event("COMPLETED")>>)
  <2>1. /\ Event("delta") \in Events /\ Event("delta").type \notin Telling
        /\ Event("COMPLETED") \in Events /\ Event("COMPLETED").type \notin Telling
    BY <1>1, <1>5
  <2> QED BY <2>1 DEF Mute
<1> QED BY <1>3, <1>4, <1>6, <1>7

(* An iteration may be called completed once each call has its verdict.    *)
LEMMA CompletionFollows ==
  ASSUME NEW s \in Seq(Events), Orderly(s),
         Named(s, "toolStarted") \subseteq Named(s, "toolCompleted") \cup Named(s, "toolFailed")
  PROVE  LET t == <<Event("iterationCompleted")>>
         IN  s \o t \in Seq(Events) /\ Orderly(s \o t) /\ ToldAlike(s, s \o t)
<1> DEFINE e == Event("iterationCompleted")
           t == <<e>>
<1>1. e \in Events /\ e.type = "iterationCompleted"
  <2>1. <<0, 0>> \in Nat \X Nat /\ "iterationCompleted" \in EventTypes
    BY DEF EventTypes
  <2> QED BY <2>1, EventFields
<1> HIDE DEF e
<1>2. t \in Seq(Events) /\ Len(t) = 1 /\ t[1] = e
  BY <1>1
<1> HIDE DEF t
<1>3. \A type : Earlier(t, 1, type) = {}
  BY DEF Earlier
<1>4. \A k \in 1 .. Len(t) : FollowsOn(s, t, k)
  BY <1>1, <1>2, <1>3 DEF FollowsOn
<1>5. \A type \in ToolTypes : Named(t, type) = {}
  <2>1. \A q \in 1 .. Len(t) + 1 - 1 : t[q].type \notin ToolTypes
    BY <1>1, <1>2 DEF ToolTypes, Verdicts
  <2> QED BY <2>1 DEF Named, Earlier
<1>6. \A type \in ToolTypes : Named(s \o t, type) = Named(s, type)
  <2>1. \A type : Named(s \o t, type) = Named(s, type) \cup Named(t, type)
    BY <1>2, NamedConcat
  <2> QED BY <1>5, <2>1
<1>7. s \o t \in Seq(Events)
  BY <1>2
<1>8. Orderly(s \o t)
  BY <1>2, <1>4, OrderlyConcat
<1> QED BY <1>6, <1>7, <1>8 DEF ToldAlike, t, e

LEMMA AnnouncementsFollow ==
  ASSUME NEW s \in Seq(Events), NEW names \in Seq(CalledNames), iteration \in Nat, Orderly(s),
         \A c \in Named(s, "toolStarted") : c[1] < iteration
  PROVE  LET t == [i \in DOMAIN names |-> Guarded(About("toolStarted", Call(i)))]
         IN  /\ s \o t \in Seq(Events) /\ Orderly(s \o t)
             /\ Named(s \o t, "toolStarted")
                  = Named(s, "toolStarted") \cup {Call(i) : i \in 1 .. Len(names)}
             /\ \A type \in ToolTypes \ {"toolStarted"} : Named(s \o t, type) = Named(s, type)
<1> DEFINE t == [i \in DOMAIN names |-> Guarded(About("toolStarted", Call(i)))]
<1>1. /\ t \in Seq(Events) /\ Len(t) = Len(names)
      /\ \A i \in 1 .. Len(names) : t[i].type = "toolStarted" /\ t[i].call = Call(i)
  BY Announcements
<1>2. Len(names) \in Nat
  OBVIOUS
<1> HIDE DEF t
<1>3. \A k \in 1 .. Len(t) + 1 : /\ Earlier(t, k, "toolStarted") = {Call(i) : i \in 1 .. k - 1}
                                 /\ \A type \in ToolTypes \ {"toolStarted"} : Earlier(t, k, type) = {}
  <2> SUFFICES ASSUME NEW k \in 1 .. Len(t) + 1
               PROVE  /\ Earlier(t, k, "toolStarted") = {Call(i) : i \in 1 .. k - 1}
                      /\ \A type \in ToolTypes \ {"toolStarted"} : Earlier(t, k, type) = {}
    OBVIOUS
  <2>1. \A q \in 1 .. k - 1 : t[q].type = "toolStarted" /\ t[q].call = Call(q)
    BY <1>1, <1>2
  <2> QED BY <2>1 DEF Earlier
<1>4. ASSUME NEW k \in 1 .. Len(t) PROVE FollowsOn(s, t, k)
  <2>1. k \in Nat /\ k \in 1 .. Len(t) + 1 /\ t[k].type = "toolStarted" /\ t[k].call = Call(k)
    BY <1>1, <1>2
  <2>2. \A c \in Named(s, "toolStarted") : Lex(c, Call(k))
    BY <2>1, LexCalls
  <2>3. \A c \in Earlier(t, k, "toolStarted") : Lex(c, Call(k))
    <3>1. Earlier(t, k, "toolStarted") = {Call(i) : i \in 1 .. k - 1}
      BY <1>3, <2>1
    <3>2. \A i \in 1 .. k - 1 : i \in Nat /\ i < k
      BY <2>1
    <3> QED BY <2>1, <3>1, <3>2, LexCalls
  <2> QED BY <2>1, <2>2, <2>3 DEF FollowsOn
<1>5. Len(t) + 1 \in 1 .. Len(t) + 1 /\ Len(t) + 1 - 1 = Len(names)
  BY <1>1, <1>2
<1>6. /\ Named(t, "toolStarted") = {Call(i) : i \in 1 .. Len(names)}
      /\ \A type \in ToolTypes \ {"toolStarted"} : Named(t, type) = {}
  BY <1>3, <1>5 DEF Named
<1>7. /\ Named(s \o t, "toolStarted") = Named(s, "toolStarted") \cup {Call(i) : i \in 1 .. Len(names)}
      /\ \A type \in ToolTypes \ {"toolStarted"} : Named(s \o t, type) = Named(s, type)
  <2>1. \A type : Named(s \o t, type) = Named(s, type) \cup Named(t, type)
    BY <1>1, NamedConcat
  <2> QED BY <1>6, <2>1
<1>8. s \o t \in Seq(Events)
  BY <1>1
<1>9. Orderly(s \o t)
  BY <1>1, <1>4, OrderlyConcat
<1> QED BY <1>7, <1>8, <1>9 DEF t

LEMMA ArtifactsFollow ==
  ASSUME NEW s \in Seq(Events), pending \in Seq(Artifacts), Orderly(s),
         \A i \in 1 .. Len(pending) : pending[i] \in Named(s, "toolResult")
  PROVE  /\ s \o ArtifactEvents \in Seq(Events) /\ Orderly(s \o ArtifactEvents)
         /\ ToldAlike(s, s \o ArtifactEvents)
<1> DEFINE t == ArtifactEvents
<1>1. /\ t \in Seq(Events) /\ Len(t) = Len(pending)
      /\ \A i \in 1 .. Len(t) : t[i].type = "artifactCreated" /\ t[i].call = pending[i]
  BY ArtifactEventsAre
<1> HIDE DEF t
<1>2. \A k \in 1 .. Len(t) : FollowsOn(s, t, k)
  BY <1>1 DEF FollowsOn
<1>3. \A type \in ToolTypes : Named(t, type) = {}
  <2>1. \A q \in 1 .. Len(t) + 1 - 1 : t[q].type \notin ToolTypes
    BY <1>1 DEF ToolTypes, Verdicts
  <2> QED BY <2>1 DEF Named, Earlier
<1>4. \A type \in ToolTypes : Named(s \o t, type) = Named(s, type)
  <2>1. \A type : Named(s \o t, type) = Named(s, type) \cup Named(t, type)
    BY <1>1, NamedConcat
  <2> QED BY <1>3, <2>1
<1>5. s \o t \in Seq(Events)
  BY <1>1
<1>6. Orderly(s \o t)
  BY <1>1, <1>2, OrderlyConcat
<1> QED BY <1>4, <1>5, <1>6 DEF ToldAlike, t

(* Every refused call is announced, fails and is answered in turn.         *)
LEMMA RefusalsFollow ==
  ASSUME NEW s \in Seq(Events), NEW names \in Seq(CalledNames), iteration \in Nat, Orderly(s),
         \A type \in ToolTypes : \A c \in Named(s, type) : c[1] < iteration,
         Named(s, "toolStarted") \subseteq Named(s, "toolResult")
  PROVE  LET t == AllRefused(names)
         IN  /\ s \o t \in Seq(Events) /\ Orderly(s \o t)
             /\ Named(s \o t, "toolStarted") \subseteq Named(s \o t, "toolResult")
             /\ \A type \in ToolTypes : \A c \in Named(s \o t, type) : c[1] <= iteration
<1> DEFINE t == AllRefused(names)
           N == Len(names)
<1>1. /\ t \in Seq(Events) /\ Len(t) = 3 * N /\ N \in Nat
      /\ \A k \in 1 .. 3 * N :
           /\ t[k].type \in {"toolStarted", "toolFailed", "toolResult"}
           /\ \E i \in 1 .. N : /\ t[k].call = Call(i)
                                /\ t[k].type = "toolStarted" <=> k = 3 * i - 2
                                /\ t[k].type = "toolFailed" <=> k = 3 * i - 1
                                /\ t[k].type = "toolResult" <=> k = 3 * i
  BY RefusedEvents
<1> HIDE DEF t, N
<1>2. ASSUME NEW i \in 1 .. N
      PROVE  /\ t[3 * i - 2].type = "toolStarted" /\ t[3 * i - 2].call = Call(i)
             /\ t[3 * i - 1].type = "toolFailed" /\ t[3 * i - 1].call = Call(i)
             /\ t[3 * i].type = "toolResult" /\ t[3 * i].call = Call(i)
  <2>1. 3 * i - 2 \in 1 .. 3 * N /\ 3 * i - 1 \in 1 .. 3 * N /\ 3 * i \in 1 .. 3 * N
    BY <1>1
  <2>2. ASSUME NEW k \in {3 * i - 2, 3 * i - 1, 3 * i}
        PROVE  /\ t[k].call = Call(i) /\ (k = 3 * i - 2 => t[k].type = "toolStarted")
               /\ (k = 3 * i - 1 => t[k].type = "toolFailed")
               /\ (k = 3 * i => t[k].type = "toolResult")
    <3>1. PICK j \in 1 .. N : /\ t[k].call = Call(j)
                              /\ t[k].type = "toolStarted" <=> k = 3 * j - 2
                              /\ t[k].type = "toolFailed" <=> k = 3 * j - 1
                              /\ t[k].type = "toolResult" <=> k = 3 * j
      BY <1>1, <2>1
    <3>2. t[k].type \in {"toolStarted", "toolFailed", "toolResult"}
      BY <1>1, <2>1
    <3>3. i = j
      BY <1>1, <3>1, <3>2
    <3> QED BY <1>1, <3>1, <3>3
  <2> QED BY <1>1, <2>2
<1>3. ASSUME NEW k \in 1 .. 3 * N PROVE \E i \in 1 .. N : k \in {3 * i - 2, 3 * i - 1, 3 * i}
  <2>1. PICK i \in 1 .. N : /\ t[k].call = Call(i)
                            /\ t[k].type = "toolStarted" <=> k = 3 * i - 2
                            /\ t[k].type = "toolFailed" <=> k = 3 * i - 1
                            /\ t[k].type = "toolResult" <=> k = 3 * i
    BY <1>1
  <2>2. t[k].type \in {"toolStarted", "toolFailed", "toolResult"}
    BY <1>1
  <2> QED BY <2>1, <2>2
(* What t has told of each call before its k-th event.                     *)
<1>4. ASSUME NEW k \in 1 .. 3 * N + 1
      PROVE  /\ \A c \in Earlier(t, k, "toolStarted") : \E j \in 1 .. N : c = Call(j) /\ 3 * j - 2 < k
             /\ \A c \in Earlier(t, k, "toolResult") : \E j \in 1 .. N : c = Call(j) /\ 3 * j < k
             /\ \A type : \A c \in Earlier(t, k, type) : \E j \in 1 .. N : c = Call(j)
             /\ \A j \in 1 .. N : /\ 3 * j - 2 < k => Call(j) \in Earlier(t, k, "toolStarted")
                                  /\ 3 * j < k => Call(j) \in Earlier(t, k, "toolResult")
  <2>1. ASSUME NEW type, NEW c \in Earlier(t, k, type)
        PROVE  \E j \in 1 .. N : /\ c = Call(j)
                                 /\ type = "toolStarted" => 3 * j - 2 < k
                                 /\ type = "toolResult" => 3 * j < k
    <3>1. PICK q \in 1 .. k - 1 : t[q].type = type /\ c = t[q].call
      BY DEF Earlier
    <3>2. q \in 1 .. 3 * N /\ q < k
      BY <1>1
    <3>3. PICK j \in 1 .. N : q \in {3 * j - 2, 3 * j - 1, 3 * j}
      BY <1>3, <3>2
    <3>4. /\ c = Call(j)
          /\ type = "toolStarted" => q = 3 * j - 2
          /\ type = "toolResult" => q = 3 * j
      BY <1>2, <3>1, <3>3
    <3> QED BY <3>2, <3>4
  <2>2. ASSUME NEW j \in 1 .. N
        PROVE  /\ 3 * j - 2 < k => Call(j) \in Earlier(t, k, "toolStarted")
               /\ 3 * j < k => Call(j) \in Earlier(t, k, "toolResult")
    <3>1. /\ 3 * j - 2 < k => 3 * j - 2 \in 1 .. k - 1
          /\ 3 * j < k => 3 * j \in 1 .. k - 1
      BY <1>1
    <3> QED BY <1>2, <3>1 DEF Earlier
  <2>3. \A c \in Earlier(t, k, "toolStarted") : \E j \in 1 .. N : c = Call(j) /\ 3 * j - 2 < k
    BY <2>1
  <2>4. \A c \in Earlier(t, k, "toolResult") : \E j \in 1 .. N : c = Call(j) /\ 3 * j < k
    BY <2>1
  <2>5. \A type : \A c \in Earlier(t, k, type) : \E j \in 1 .. N : c = Call(j)
    BY <2>1
  <2> QED BY <2>2, <2>3, <2>4, <2>5
<1>5. ASSUME NEW i \in 1 .. N
      PROVE  /\ FollowsOn(s, t, 3 * i - 2) /\ FollowsOn(s, t, 3 * i - 1) /\ FollowsOn(s, t, 3 * i)
  <2>1. FollowsOn(s, t, 3 * i - 2)
    <3>1. 3 * i - 2 \in 1 .. 3 * N + 1 /\ i \in Nat
      BY <1>1
    <3>2. \A c \in Earlier(t, 3 * i - 2, "toolStarted") : Lex(c, Call(i))
      <4>1. \A c \in Earlier(t, 3 * i - 2, "toolStarted") :
              \E j \in 1 .. N : c = Call(j) /\ 3 * j - 2 < 3 * i - 2
        BY <1>4, <3>1
      <4>2. \A j \in 1 .. N : 3 * j - 2 < 3 * i - 2 => j \in Nat /\ j < i
        BY <1>1
      <4> QED BY <3>1, <4>1, <4>2, LexCalls
    <3>3. \A c \in Named(s, "toolStarted") : Lex(c, Call(i))
      BY <3>1, LexCalls DEF ToolTypes
    <3>4. t[3 * i - 2].type = "toolStarted" /\ t[3 * i - 2].call = Call(i)
      BY <1>2
    <3> QED BY <3>2, <3>3, <3>4 DEF FollowsOn
  <2>2. FollowsOn(s, t, 3 * i - 1)
    <3>1. t[3 * i - 1].type = "toolFailed"
      BY <1>2
    <3> QED BY <3>1 DEF FollowsOn
  <2>3. FollowsOn(s, t, 3 * i)
    <3>1. 3 * i \in 1 .. 3 * N + 1 /\ i \in Nat /\ 3 * i > 1
      BY <1>1
    <3>2. \A c \in Earlier(t, 3 * i, "toolResult") : Lex(c, Call(i))
      <4>1. \A c \in Earlier(t, 3 * i, "toolResult") : \E j \in 1 .. N : c = Call(j) /\ 3 * j < 3 * i
        BY <1>4, <3>1
      <4>2. \A j \in 1 .. N : 3 * j < 3 * i => j \in Nat /\ j < i
        BY <1>1
      <4> QED BY <3>1, <4>1, <4>2, LexCalls
    <3>3. \A c \in Named(s, "toolResult") : Lex(c, Call(i))
      BY <3>1, LexCalls DEF ToolTypes
    <3>4. Call(i) \in Earlier(t, 3 * i, "toolStarted")
      <4>1. 3 * i - 2 < 3 * i
        BY <1>1
      <4> QED BY <1>4, <3>1, <4>1
    <3>5. ASSUME NEW c \in Earlier(t, 3 * i, "toolStarted"), Lex(c, Call(i))
          PROVE  c \in Earlier(t, 3 * i, "toolResult")
      <4>1. PICK j \in 1 .. N : c = Call(j) /\ 3 * j - 2 < 3 * i
        BY <1>4, <3>1
      <4>2. j \in Nat
        BY <1>1
      <4>3. j < i
        BY <3>1, <3>5, <4>1, <4>2, LexCalls
      <4>4. 3 * j < 3 * i
        BY <3>1, <4>2, <4>3
      <4> QED BY <1>4, <3>1, <4>1, <4>4
    <3>6. /\ t[3 * i].type = "toolResult" /\ t[3 * i].call = Call(i)
          /\ t[3 * i - 1].type \in Verdicts /\ t[3 * i - 1].call = Call(i)
      BY <1>2 DEF Verdicts
    <3> QED BY <3>1, <3>2, <3>3, <3>4, <3>5, <3>6 DEF FollowsOn
  <2> QED BY <2>1, <2>2, <2>3
<1>6. ASSUME NEW k \in 1 .. Len(t) PROVE FollowsOn(s, t, k)
  <2>1. k \in 1 .. 3 * N
    BY <1>1
  <2>2. PICK i \in 1 .. N : k \in {3 * i - 2, 3 * i - 1, 3 * i}
    BY <1>3, <2>1
  <2>3. FollowsOn(s, t, 3 * i - 2) /\ FollowsOn(s, t, 3 * i - 1) /\ FollowsOn(s, t, 3 * i)
    BY <1>5
  <2> QED BY <2>2, <2>3
<1>7. \A type : Named(s \o t, type) = Named(s, type) \cup Named(t, type)
  BY <1>1, NamedConcat
<1>8. /\ Named(t, "toolStarted") \subseteq Named(t, "toolResult")
      /\ \A type : \A c \in Named(t, type) : \E j \in 1 .. N : c = Call(j)
  <2>1. /\ Len(t) + 1 \in 1 .. 3 * N + 1
        /\ \A j \in 1 .. N : 3 * j < Len(t) + 1
    BY <1>1
  <2> QED BY <1>4, <2>1 DEF Named
<1>9. \A type \in ToolTypes : \A c \in Named(s \o t, type) : c[1] <= iteration
  <2>1. \A type : \A c \in Named(t, type) : c[1] = iteration
    <3>1. \A j \in 1 .. N : Call(j)[1] = iteration
      BY <1>1, LexCalls
    <3> QED BY <1>8, <3>1
  <2>2. \A type \in ToolTypes : \A c \in Named(s, type) : c[1] \in Nat
    BY NamedCalls
  <2> QED BY <1>7, <2>1, <2>2
<1>10. Named(s \o t, "toolStarted") \subseteq Named(s \o t, "toolResult")
  BY <1>7, <1>8
<1>11. s \o t \in Seq(Events)
  BY <1>1
<1>12. Orderly(s \o t)
  BY <1>1, <1>6, OrderlyConcat
<1> QED BY <1>9, <1>10, <1>11, <1>12 DEF t

(* The question to the user: its call counts as answered at once.          *)
LEMMA QuestionFollows ==
  ASSUME NEW s \in Seq(Events), NEW i \in Nat, iteration \in Nat, Orderly(s),
         \A type \in ToolTypes : \A c \in Named(s, type) : c[1] < iteration,
         Named(s, "toolStarted") \subseteq Named(s, "toolResult")
  PROVE  LET t == <<About("toolStarted", Call(i)), Guarded(About("toolCompleted", Call(i))),
                    Event("inputRequiredNotice"), Event("iterationCompleted"),
                    Event("INPUT_REQUIRED")>>
         IN  /\ s \o t \in Seq(Events) /\ Orderly(s \o t)
             /\ \A type \in ToolTypes : \A c \in Named(s \o t, type) : c[1] <= iteration
<1> DEFINE t == <<About("toolStarted", Call(i)), Guarded(About("toolCompleted", Call(i))),
                  Event("inputRequiredNotice"), Event("iterationCompleted"),
                  Event("INPUT_REQUIRED")>>
<1>1. Call(i) \in Nat \X Nat /\ Call(i)[1] = iteration /\ <<0, 0>> \in Nat \X Nat
  BY LexCalls
<1>2. /\ About("toolStarted", Call(i)) \in Events /\ Guarded(About("toolCompleted", Call(i))) \in Events
      /\ \A type \in {"inputRequiredNotice", "iterationCompleted", "INPUT_REQUIRED"} :
           Event(type) \in Events /\ Event(type).type = type
      /\ About("toolStarted", Call(i)).type = "toolStarted"
      /\ About("toolStarted", Call(i)).call = Call(i)
      /\ Guarded(About("toolCompleted", Call(i))).type = "toolCompleted"
      /\ Guarded(About("toolCompleted", Call(i))).call = Call(i)
  <2>1. {"toolStarted", "toolCompleted", "inputRequiredNotice", "iterationCompleted",
         "INPUT_REQUIRED"} \subseteq EventTypes
    BY DEF EventTypes
  <2> QED BY <1>1, <2>1, EventFields
<1>3. /\ t \in Seq(Events) /\ Len(t) = 5
      /\ t[1].type = "toolStarted" /\ t[1].call = Call(i)
      /\ t[2].type = "toolCompleted" /\ t[2].call = Call(i)
      /\ t[3].type = "inputRequiredNotice" /\ t[4].type = "iterationCompleted"
      /\ t[5].type = "INPUT_REQUIRED"
  BY <1>2
<1> HIDE DEF t
<1>4. FollowsOn(s, t, 1)
  <2>1. \A c \in Named(s, "toolStarted") : Lex(c, Call(i))
    BY LexCalls DEF ToolTypes
  <2>2. Earlier(t, 1, "toolStarted") = {}
    BY DEF Earlier
  <2> QED BY <1>3, <2>1, <2>2 DEF FollowsOn
<1>5. FollowsOn(s, t, 2) /\ FollowsOn(s, t, 3) /\ FollowsOn(s, t, 5)
  BY <1>3 DEF FollowsOn
<1>6. FollowsOn(s, t, 4)
  <2>1. Earlier(t, 4, "toolStarted") = {Call(i)} /\ Call(i) \in Earlier(t, 4, "toolCompleted")
    <3>1. \A q : q \in 1 .. 4 - 1 <=> q \in {1, 2, 3}
      OBVIOUS
    <3> QED BY <1>3, <3>1 DEF Earlier
  <2>2. Named(s, "toolStarted") \subseteq Named(s, "toolCompleted") \cup Named(s, "toolFailed")
    BY ResultsHaveVerdicts
  <2> QED BY <1>3, <2>1, <2>2 DEF FollowsOn
<1>7. \A k \in 1 .. Len(t) : FollowsOn(s, t, k)
  <2>1. \A k \in 1 .. Len(t) : k \in {1, 2, 3, 4, 5}
    BY <1>3
  <2> QED BY <1>4, <1>5, <1>6, <2>1
<1>8. ASSUME NEW type \in ToolTypes, NEW c \in Named(s \o t, type) PROVE c[1] <= iteration
  <2>1. c \in Named(s, type) \/ c \in Named(t, type)
    BY <1>3, NamedConcat
  <2>2. CASE c \in Named(s, type)
    <3>1. c[1] < iteration /\ c[1] \in Nat
      BY <2>2, NamedCalls
    <3> QED BY <3>1
  <2>3. CASE c \in Named(t, type)
    <3>1. PICK q \in 1 .. Len(t) + 1 - 1 : t[q].type = type /\ c = t[q].call
      BY <2>3 DEF Named, Earlier
    <3>2. q \in {1, 2, 3, 4, 5}
      BY <1>3, <3>1
    <3>3. q \in {1, 2}
      BY <1>3, <3>1, <3>2 DEF ToolTypes, Verdicts
    <3> QED BY <1>1, <1>3, <3>1, <3>3
  <2> QED BY <2>1, <2>2, <2>3
<1>9. s \o t \in Seq(Events)
  BY <1>3
<1>10. Orderly(s \o t)
  BY <1>3, <1>7, OrderlyConcat
<1> QED BY <1>8, <1>9, <1>10 DEF t

(* The report of an awaited call.                                          *)
LEMMA ReportsFollow ==
  ASSUME NEW s \in Seq(Events), NEW i \in Nat, iteration \in Nat, Orderly(s),
         Call(i) \in Named(s, "toolStarted"),
         \A c \in Named(s, "toolResult") : Lex(c, Call(i)),
         \A c \in Named(s, "toolStarted") : Lex(c, Call(i)) => c \in Named(s, "toolResult")
  PROVE  /\ s \o Reports(i) \in Seq(Events) /\ Orderly(s \o Reports(i))
         /\ Named(s \o Reports(i), "toolStarted") = Named(s, "toolStarted")
         /\ Named(s \o Reports(i), "toolResult") = Named(s, "toolResult") \cup {Call(i)}
         /\ \A type \in ToolTypes : Named(s \o Reports(i), type) \subseteq Named(s, type) \cup {Call(i)}
<1> DEFINE t == Reports(i)
           verdict == IF dispatch[i] = "ok" THEN "toolCompleted" ELSE "toolFailed"
<1>1. Call(i) \in Nat \X Nat
  BY LexCalls
<1>2. verdict \in Verdicts
  BY DEF Verdicts
<1>3. /\ About(verdict, Call(i)) \in Events /\ About("toolResult", Call(i)) \in Events
      /\ About(verdict, Call(i)).type = verdict /\ About(verdict, Call(i)).call = Call(i)
      /\ About("toolResult", Call(i)).type = "toolResult" /\ About("toolResult", Call(i)).call = Call(i)
  <2>1. verdict \in EventTypes /\ "toolResult" \in EventTypes
    BY DEF EventTypes
  <2> HIDE DEF verdict
  <2> QED BY <1>1, <2>1, EventFields
<1>4. t = <<About(verdict, Call(i)), About("toolResult", Call(i))>>
  BY DEF Reports
<1> HIDE DEF verdict, t
<1>5. /\ t \in Seq(Events) /\ Len(t) = 2
      /\ t[1].type = verdict /\ t[1].call = Call(i)
      /\ t[2].type = "toolResult" /\ t[2].call = Call(i)
  BY <1>3, <1>4
<1>6. FollowsOn(s, t, 1)
  BY <1>2, <1>5 DEF FollowsOn, Verdicts
<1>7. FollowsOn(s, t, 2)
  <2>1. Earlier(t, 2, "toolStarted") = {} /\ Earlier(t, 2, "toolResult") = {}
    <3>1. \A q \in 1 .. 2 - 1 : t[q].type \notin {"toolStarted", "toolResult"}
      BY <1>2, <1>5 DEF Verdicts
    <3> QED BY <3>1 DEF Earlier
  <2> QED BY <1>2, <1>5, <2>1 DEF FollowsOn
<1>8. \A k \in 1 .. Len(t) : FollowsOn(s, t, k)
  <2>1. \A k \in 1 .. Len(t) : k \in {1, 2}
    BY <1>5
  <2> QED BY <1>6, <1>7, <2>1
<1>9. /\ Named(t, "toolStarted") = {} /\ Named(t, "toolResult") = {Call(i)}
      /\ \A type \in ToolTypes : Named(t, type) \subseteq {Call(i)}
  <2>1. \A q : q \in 1 .. Len(t) + 1 - 1 <=> q \in {1, 2}
    BY <1>5
  <2> QED BY <1>2, <1>5, <2>1 DEF Named, Earlier, Verdicts
<1>10. \A type : Named(s \o t, type) = Named(s, type) \cup Named(t, type)
  BY <1>5, NamedConcat
<1>11. s \o t \in Seq(Events)
  BY <1>5
<1>12. Orderly(s \o t)
  BY <1>5, <1>8, OrderlyConcat
<1> QED BY <1>9, <1>10, <1>11, <1>12 DEF t

(* Calls of the running batch whose answers have been planned.             *)
answered == IF pc = "awaiting" THEN awaited - 1 ELSE awaited

(* What is planned is in order; before the next answer of the model every  *)
(* announced call has its result, and while a batch runs those that have   *)
(* one are the first ones of the batch.                                    *)
OrderInvariant ==
  Streaming =>
    /\ Orderly(Planned)
    /\ \A type \in ToolTypes : \A c \in Named(Planned, type) : c[1] <= iteration
    /\ pc \in {"beforeModel", "model"} =>
         \A type \in ToolTypes : \A c \in Named(Planned, type) : c[1] < iteration
    /\ pc \in {"start", "beforeAgent", "iterate", "beforeModel", "model", "afterAgent"} =>
         Named(Planned, "toolStarted") \subseteq Named(Planned, "toolResult")
    /\ pc \in {"dispatch", "tools", "awaiting"} =>
         /\ \A i \in 1 .. Len(calls) : Call(i) \in Named(Planned, "toolStarted")
         /\ \A c \in Named(Planned, "toolStarted") \ Named(Planned, "toolResult") :
              \E i \in answered + 1 .. Len(calls) : c = Call(i)
         /\ \A c \in Named(Planned, "toolResult") :
              c[1] < iteration \/ \E i \in 1 .. answered : c = Call(i)
    /\ pc \in {"tools", "awaiting"} =>
         /\ Len(dispatch) = Len(calls)
         /\ \A j \in 1 .. Len(pending) : \E i \in 1 .. Len(dispatch) : pending[j] = Call(i)

LEMMA EndKeepsOrder ==
  ASSUME StreamTypes, OrderInvariant, Streaming, NEW how, Ends(how), UNCHANGED <<iteration, events>>
  PROVE  OrderInvariant'
<1>1. Drops /\ pc' = "done"
  BY DEF Ends, Drops
<1>2. Planned' = events /\ Planned = events \o out /\ events \in Seq(Events) /\ out \in Seq(Events)
  BY <1>1, Dropped DEF StreamTypes
<1>3. Orderly(Planned) /\ \A type \in ToolTypes : \A c \in Named(Planned, type) : c[1] <= iteration
  BY DEF OrderInvariant
<1>4. Orderly(Planned') /\ \A type \in ToolTypes : \A c \in Named(Planned', type) : c[1] <= iteration'
  BY <1>2, <1>3, OrderlyPrefix
<1> QED BY <1>1, <1>4 DEF OrderInvariant

(* Nothing new is planned, and the calls and the slot are as they were or  *)
(* a call of the batch has put its artifact there.                         *)
LEMMA SamePlanKeepsOrder ==
  ASSUME OrderInvariant, Planned' = Planned,
         UNCHANGED <<handler, pc, iteration, calls, awaited>>, Len(dispatch') = Len(dispatch),
         pc \in {"tools", "awaiting"} =>
           \A j \in 1 .. Len(pending') :
             \/ j \in 1 .. Len(pending) /\ pending'[j] = pending[j]
             \/ \E i \in 1 .. Len(dispatch) : pending'[j] = Call(i)
  PROVE  OrderInvariant'
<1>1. /\ answered' = answered /\ Streaming' = Streaming
      /\ \A i : Call(i)' = Call(i)
  BY DEF answered, Streaming, Call
<1>2. ASSUME Streaming, pc \in {"tools", "awaiting"}
      PROVE  \A j \in 1 .. Len(pending') : \E i \in 1 .. Len(dispatch) : pending'[j] = Call(i)
  BY <1>2 DEF OrderInvariant
<1> HIDE DEF Planned, Streaming, answered
<1>3. OrderInvariant'
  BY <1>1, <1>2 DEF OrderInvariant
<1> QED BY <1>3

(* Between two answers of the model the generator says nothing of calls.   *)
LEMMA MuteKeepsOrder ==
  ASSUME StreamTypes, OrderInvariant, Streaming, iteration \in Nat, out = <<>>, Mute(out'),
         UNCHANGED <<handler, events>>, iteration' \in {iteration, iteration + 1},
         pc \in {"start", "beforeAgent", "iterate", "beforeModel", "model", "afterAgent"},
         pc' \in {"start", "beforeAgent", "iterate", "beforeModel", "model", "afterAgent", "return"},
         pc' \in {"beforeModel", "model"} => iteration' = iteration + 1 \/ pc \in {"beforeModel", "model"}
  PROVE  OrderInvariant'
<1>1. /\ events \in Seq(Events) /\ Planned = events /\ Planned' = events \o out'
  <2>1. out' \in Seq(Events) /\ Adds(out')
    BY DEF Adds, Mute
  <2> QED BY <2>1, Added DEF StreamTypes
<1>2. /\ Orderly(events) /\ Named(events, "toolStarted") \subseteq Named(events, "toolResult")
      /\ \A type \in ToolTypes : \A c \in Named(events, type) : c[1] <= iteration
      /\ pc \in {"beforeModel", "model"} =>
           \A type \in ToolTypes : \A c \in Named(events, type) : c[1] < iteration
  BY <1>1 DEF OrderInvariant
<1>3. Orderly(Planned') /\ ToldAlike(events, Planned')
  BY <1>1, <1>2, MuteFollows
<1>4. \A type \in ToolTypes : Named(Planned', type) = Named(events, type)
  BY <1>3 DEF ToldAlike
<1>5. Named(Planned', "toolStarted") \subseteq Named(Planned', "toolResult")
  BY <1>2, <1>4 DEF ToolTypes
<1>6. ASSUME NEW type \in ToolTypes, NEW c \in Named(Planned', type)
      PROVE  c[1] <= iteration' /\ (pc' \in {"beforeModel", "model"} => c[1] < iteration')
  <2>1. c \in Named(events, type) /\ c[1] \in Nat
    BY <1>1, <1>4, NamedCalls
  <2> QED BY <1>2, <2>1
<1>7. OrderInvariant'
  BY <1>3, <1>5, <1>6 DEF OrderInvariant
<1> QED BY <1>7

(* Between two iterations, and to the final answer.                        *)
LEMMA LoopKeepsOrder ==
  ASSUME TypeInvariant, StreamTypes, OrderInvariant, Streaming,
         \/ StartStreaming \/ StreamBeforeAgent \/ Iterate \/ StreamCallsModel
         \/ StreamAnswersFinally \/ StreamAfterAgent
  PROVE  OrderInvariant'
<1>1. iteration \in Nat
  BY ShowingFacts
<1>2. {"delta", "COMPLETED", "FAILED"} \subseteq EventTypes \ Telling
  BY DEF EventTypes, Telling, ToolTypes, Verdicts
<1>3. /\ Mute(<<>>) /\ Mute(<<Event("delta")>>) /\ Mute(<<Event("COMPLETED")>>)
      /\ Mute(<<Event("FAILED")>>) /\ Mute(<<Event("delta"), Event("COMPLETED")>>)
  BY <1>2, MuteEvents
<1>4. CASE StartStreaming
  <2>1. /\ pc = "start" /\ out = <<>> /\ UNCHANGED <<handler, iteration, events>>
        /\ Ends("aborted") \/ (out' = <<>> /\ pc' = "beforeAgent")
    BY <1>4 DEF StartStreaming, At, Yields
  <2> QED BY <1>1, <1>3, <2>1, EndKeepsOrder, MuteKeepsOrder
<1>5. CASE StreamBeforeAgent
  <2>1. /\ pc = "beforeAgent" /\ out = <<>> /\ UNCHANGED <<handler, iteration, events>>
        /\ pc' \in {"return", "iterate"} /\ out' \in {<<>>, <<Event("delta"), Event("COMPLETED")>>}
    BY <1>5 DEF StreamBeforeAgent, At, Yields
  <2> QED BY <1>1, <1>3, <2>1, MuteKeepsOrder
<1>6. CASE Iterate
  <2>1. /\ pc = "iterate" /\ out = <<>> /\ UNCHANGED <<handler, events>>
        /\ \/ Ends("aborted") /\ iteration' = iteration
           \/ out' = <<Event("FAILED")>> /\ pc' = "return" /\ iteration' = iteration
           \/ out' = <<>> /\ pc' = "beforeModel" /\ iteration' = iteration + 1
    BY <1>6 DEF Iterate, At, Yields
  <2> QED BY <1>1, <1>3, <2>1, EndKeepsOrder, MuteKeepsOrder
<1>7. CASE StreamCallsModel
  <2>1. /\ pc = "beforeModel" /\ out = <<>> /\ UNCHANGED <<handler, iteration, events>>
        /\ pc' = "model" /\ out' = <<>>
    BY <1>7 DEF StreamCallsModel, At, Yields
  <2> QED BY <1>1, <1>3, <2>1, MuteKeepsOrder
<1>8. CASE StreamAnswersFinally
  <2>1. /\ pc \in {"beforeModel", "model"} /\ out = <<>> /\ UNCHANGED <<handler, iteration, events>>
        /\ pc' = "afterAgent" /\ out' \in {<<>>, <<Event("delta")>>}
    BY <1>8 DEF StreamAnswersFinally, StreamAnswering, At, Yields
  <2> QED BY <1>1, <1>3, <2>1, MuteKeepsOrder
<1>9. CASE StreamAfterAgent
  <2> DEFINE completion == <<Event("iterationCompleted")>>
             final == IF finalUsageMetadata THEN <<Event("COMPLETED")>> ELSE <<>>
  <2>1. PICK text \in {<<>>, <<Event("delta")>>} : out' = text \o completion \o final
    BY <1>9 DEF StreamAfterAgent, Yields
  <2>2. /\ pc = "afterAgent" /\ out = <<>> /\ pc' = "return" /\ UNCHANGED <<handler, iteration, events>>
    BY <1>9 DEF StreamAfterAgent, At, Yields
  <2>3. Mute(text) /\ Mute(final)
    BY <1>3
  <2>4. completion \in Seq(Events)
    <3>1. <<0, 0>> \in Nat \X Nat /\ "iterationCompleted" \in EventTypes
      BY DEF EventTypes
    <3>2. Event("iterationCompleted") \in Events
      BY <3>1, EventFields
    <3> QED BY <3>2
  <2>5. text \in Seq(Events) /\ final \in Seq(Events) /\ events \in Seq(Events)
    BY <2>3 DEF Mute, StreamTypes
  <2> HIDE DEF final, completion
  <2> DEFINE s1 == events \o text
             s2 == s1 \o completion
             s3 == s2 \o final
  <2>6. out' \in Seq(Events) /\ Planned = events /\ Planned' = s3
    <3>1. text \o completion \o final \in Seq(Events)
      BY <2>4, <2>5
    <3>2. Adds(out') /\ out' \in Seq(Events)
      BY <2>1, <2>2, <3>1 DEF Adds
    <3>3. events \o (text \o completion \o final) = s3
      <4> DEFINE tc == text \o completion
      <4>1. tc \in Seq(Events)
        BY <2>4, <2>5
      <4>2. events \o tc = (events \o text) \o completion
        <5>1. events \in Seq(Events)
          BY <2>5
        <5>2. text \in Seq(Events)
          BY <2>5
        <5> QED BY <2>4, <5>1, <5>2, Associates
      <4> HIDE DEF tc
      <4>3. events \o (tc \o final) = (events \o tc) \o final
        <5>1. events \in Seq(Events)
          BY <2>5
        <5>2. final \in Seq(Events)
          BY <2>5
        <5> QED BY <4>1, <5>1, <5>2, Associates
      <4> QED BY <4>2, <4>3 DEF tc
    <3>4. Planned = events /\ Planned' = events \o out'
      BY <3>2, Added
    <3> QED BY <2>1, <3>2, <3>3, <3>4
  <2>7. /\ Orderly(events) /\ Named(events, "toolStarted") \subseteq Named(events, "toolResult")
        /\ \A type \in ToolTypes : \A c \in Named(events, type) : c[1] <= iteration
    BY <2>2, <2>6 DEF OrderInvariant
  <2> HIDE DEF s1, s2, s3
  <2>8. s1 \in Seq(Events) /\ Orderly(s1) /\ ToldAlike(events, s1)
    BY <2>3, <2>5, <2>7, MuteFollows DEF s1
  <2>9. Named(s1, "toolStarted") \subseteq Named(s1, "toolCompleted") \cup Named(s1, "toolFailed")
    <3>1. Named(s1, "toolStarted") \subseteq Named(s1, "toolResult")
      BY <2>7, <2>8 DEF ToldAlike, ToolTypes
    <3> QED BY <2>8, <3>1, ResultsHaveVerdicts
  <2>10. s2 \in Seq(Events) /\ Orderly(s2) /\ ToldAlike(s1, s2)
    BY <2>8, <2>9, CompletionFollows DEF s2, completion
  <2>11. Orderly(s3) /\ ToldAlike(s2, s3)
    BY <2>3, <2>10, MuteFollows DEF s3
  <2>12. \A type \in ToolTypes : Named(s3, type) = Named(events, type)
    BY <2>8, <2>10, <2>11 DEF ToldAlike
  <2>13. /\ Orderly(Planned')
         /\ \A type \in ToolTypes : \A c \in Named(Planned', type) : c[1] <= iteration'
    BY <2>2, <2>6, <2>7, <2>11, <2>12
  <2> QED BY <2>2, <2>13 DEF OrderInvariant
<1> QED BY <1>4, <1>5, <1>6, <1>7, <1>8, <1>9

(* Answers of the model that call tools.                                   *)
LEMMA ModelKeepsOrder ==
  ASSUME TypeInvariant, StreamTypes, OrderInvariant, Streaming, NEW names \in Completions,
         StreamAsksForInput(names) \/ StreamAnswersWithoutTools(names) \/ StreamAnnouncesTools(names)
  PROVE  OrderInvariant'
<1>1. iteration \in Nat /\ names \in Seq(CalledNames)
  BY ShowingFacts, CompletionsAre
<1>2. /\ pc \in {"beforeModel", "model"} /\ out = <<>> /\ calls' = names
      /\ UNCHANGED <<handler, iteration, events>>
  BY DEF StreamAsksForInput, StreamAnswersWithoutTools, StreamAnnouncesTools, StreamAnswering, At
<1>3. Planned = events /\ events \in Seq(Events)
  BY <1>2 DEF Planned, StreamTypes
<1>4. /\ Orderly(events) /\ Named(events, "toolStarted") \subseteq Named(events, "toolResult")
      /\ \A type \in ToolTypes : \A c \in Named(events, type) : c[1] < iteration
  BY <1>2, <1>3 DEF OrderInvariant
<1> DEFINE s == events \o Spoken
<1>5. Spoken \in Seq(Events)
  BY MuteEvents DEF Mute
<1>6. s \in Seq(Events) /\ Orderly(s) /\ ToldAlike(events, s)
  BY <1>3, <1>4, MuteEvents, MuteFollows
<1>7. /\ Named(s, "toolStarted") \subseteq Named(s, "toolResult")
      /\ \A type \in ToolTypes : \A c \in Named(s, type) : c[1] < iteration
  BY <1>4, <1>6 DEF ToldAlike, ToolTypes
<1>8. ASSUME NEW t \in Seq(Events), out' = Spoken \o t PROVE Planned' = s \o t
  <2>1. events \o (Spoken \o t) = s \o t
    BY <1>3, <1>5, Associates
  <2> QED BY <1>2, <1>8, <2>1 DEF Planned
<1>9. \A i : Call(i)' = Call(i)
  BY <1>2 DEF Call
<1> HIDE DEF s
<1>10. CASE StreamAsksForInput(names)
  <2> DEFINE n == SelectInSeq(names, LAMBDA m : m = INPUT_REQUIRED_TOOL)
             t == <<About("toolStarted", Call(n)), Guarded(About("toolCompleted", Call(n))),
                    Event("inputRequiredNotice"), Event("iterationCompleted"),
                    Event("INPUT_REQUIRED")>>
  <2>1. n \in Nat
    BY <1>1, AskedPosition
  <2>2. out' = Spoken \o t /\ pc' = "return"
    BY <1>10 DEF StreamAsksForInput, Yields
  <2> HIDE DEF n
  <2>3. /\ Orderly(s \o t)
        /\ \A type \in ToolTypes : \A c \in Named(s \o t, type) : c[1] <= iteration
    BY <1>1, <1>6, <1>7, <2>1, QuestionFollows
  <2>4. t \in Seq(Events)
    <3>1. {"toolStarted", "toolCompleted", "inputRequiredNotice", "iterationCompleted",
           "INPUT_REQUIRED"} \subseteq EventTypes
      BY DEF EventTypes
    <3>2. Call(n) \in Nat \X Nat /\ <<0, 0>> \in Nat \X Nat
      BY <1>1, <2>1 DEF Call
    <3>3. /\ About("toolStarted", Call(n)) \in Events /\ Guarded(About("toolCompleted", Call(n))) \in Events
          /\ \A type \in {"inputRequiredNotice", "iterationCompleted", "INPUT_REQUIRED"} :
               Event(type) \in Events
      BY <3>1, <3>2, EventFields
    <3> QED BY <3>3
  <2> HIDE DEF t
  <2>5. Planned' = s \o t
    BY <1>8, <2>2, <2>4
  <2> QED BY <1>2, <2>2, <2>3, <2>5 DEF OrderInvariant
<1>11. CASE StreamAnswersWithoutTools(names)
  <2> DEFINE t == AllRefused(names)
             completion == <<Event("iterationCompleted")>>
             s1 == s \o t
  <2>1. out' = Spoken \o t \o completion /\ pc' = "iterate"
    BY <1>11 DEF StreamAnswersWithoutTools, Yields
  <2>2. /\ s1 \in Seq(Events) /\ Orderly(s1)
        /\ Named(s1, "toolStarted") \subseteq Named(s1, "toolResult")
        /\ \A type \in ToolTypes : \A c \in Named(s1, type) : c[1] <= iteration
    BY <1>1, <1>6, <1>7, RefusalsFollow
  <2>3. t \in Seq(Events)
    BY <1>1, RefusedEvents
  <2>4. completion \in Seq(Events)
    <3>1. <<0, 0>> \in Nat \X Nat /\ "iterationCompleted" \in EventTypes
      BY DEF EventTypes
    <3>2. Event("iterationCompleted") \in Events
      BY <3>1, EventFields
    <3> QED BY <3>2
  <2> HIDE DEF t, completion
  <2>5. Planned' = s1 \o completion
    <3>1. events \o (Spoken \o t \o completion) = ((events \o Spoken) \o t) \o completion
      <4> DEFINE st == Spoken \o t
      <4>1. st \in Seq(Events)
        BY <1>5, <2>3
      <4>2. events \o st = (events \o Spoken) \o t
        BY <1>3, <1>5, <2>3, Associates
      <4> HIDE DEF st
      <4>3. events \o (st \o completion) = (events \o st) \o completion
        BY <1>3, <2>4, <4>1, Associates
      <4> QED BY <4>2, <4>3 DEF st
    <3> QED BY <1>2, <2>1, <3>1 DEF Planned, s
  <2> HIDE DEF s1
  <2>6. Named(s1, "toolStarted") \subseteq Named(s1, "toolCompleted") \cup Named(s1, "toolFailed")
    BY <2>2, ResultsHaveVerdicts
  <2>7. Orderly(s1 \o completion) /\ ToldAlike(s1, s1 \o completion)
    BY <2>2, <2>6, CompletionFollows DEF completion
  <2>8. /\ Orderly(Planned') /\ Named(Planned', "toolStarted") \subseteq Named(Planned', "toolResult")
        /\ \A type \in ToolTypes : \A c \in Named(Planned', type) : c[1] <= iteration'
    BY <1>2, <2>2, <2>5, <2>7 DEF ToldAlike, ToolTypes
  <2> QED BY <2>1, <2>8 DEF OrderInvariant
<1>12. CASE StreamAnnouncesTools(names)
  <2> DEFINE t == [i \in DOMAIN names |-> Guarded(About("toolStarted", Call(i)))]
  <2>1. out' = Spoken \o t /\ pc' = "dispatch" /\ awaited' = 0
    BY <1>12 DEF StreamAnnouncesTools, Yields
  <2>2. t \in Seq(Events)
    BY <1>1, Announcements
  <2>3. \A c \in Named(s, "toolStarted") : c[1] < iteration
    BY <1>7 DEF ToolTypes
  <2>4. /\ Orderly(s \o t)
        /\ Named(s \o t, "toolStarted") = Named(s, "toolStarted") \cup {Call(i) : i \in 1 .. Len(names)}
        /\ \A type \in ToolTypes \ {"toolStarted"} : Named(s \o t, type) = Named(s, type)
    BY <1>1, <1>6, <2>3, AnnouncementsFollow
  <2> HIDE DEF t
  <2>5. Planned' = s \o t
    BY <1>8, <2>1, <2>2
  <2>6. Named(s \o t, "toolResult") = Named(s, "toolResult")
    BY <2>4 DEF ToolTypes, Verdicts
  <2>7. answered' = 0
    BY <2>1 DEF answered
  <2>8. ASSUME NEW type \in ToolTypes, NEW c \in Named(Planned', type) PROVE c[1] <= iteration'
    <3>1. c \in Named(s, type) \/ \E i \in 1 .. Len(names) : c = Call(i)
      BY <2>4, <2>5
    <3>2. \A i \in 1 .. Len(names) : Call(i)[1] = iteration
      BY <1>1, LexCalls
    <3>3. c \in Named(s, type) => c[1] < iteration /\ c[1] \in Nat
      BY <1>6, <1>7, NamedCalls
    <3> QED BY <1>1, <1>2, <3>1, <3>2, <3>3
  <2>9. \A i \in 1 .. Len(calls') : Call(i)' \in Named(Planned', "toolStarted")
    BY <1>2, <1>9, <2>4, <2>5
  <2>10. \A c \in Named(Planned', "toolStarted") \ Named(Planned', "toolResult") :
           \E i \in answered' + 1 .. Len(calls') : c = Call(i)'
    <3>1. \A c \in Named(Planned', "toolStarted") \ Named(Planned', "toolResult") :
            \E i \in 1 .. Len(names) : c = Call(i)
      BY <1>7, <2>4, <2>5, <2>6
    <3>2. answered' + 1 = 1
      BY <2>7
    <3> QED BY <1>2, <1>9, <3>1, <3>2
  <2>11. \A c \in Named(Planned', "toolResult") : c[1] < iteration'
    BY <1>2, <1>7, <2>5, <2>6 DEF ToolTypes
  <2> HIDE DEF Planned, answered
  <2> QED BY <2>1, <2>4, <2>5, <2>7, <2>8, <2>9, <2>10, <2>11 DEF OrderInvariant
<1> QED BY <1>10, <1>11, <1>12

(* The batch: dispatched, awaited in the order of its calls, reported.     *)
LEMMA BatchKeepsOrder ==
  ASSUME TypeInvariant, StreamTypes, ShowingInvariant, OrderInvariant, Streaming,
         StreamDispatches \/ AwaitTool \/ ToolAnswered
  PROVE  OrderInvariant'
<1>1. /\ iteration \in Nat /\ dispatch \in Seq(Dispatched) /\ calls \in Seq(CalledNames)
      /\ awaited \in Nat
  BY ShowingFacts DEF StreamTypes
<1>2. UNCHANGED iteration => \A i : Call(i)' = Call(i)
  BY DEF Call
<1>3. CASE StreamDispatches
  <2>1. /\ pc = "dispatch" /\ out = <<>> /\ pc' = "tools" /\ out' = <<>>
        /\ dispatch' = [i \in DOMAIN calls |-> "running"]
        /\ UNCHANGED <<handler, iteration, calls, pending, events, awaited>>
    BY <1>3 DEF StreamDispatches, At, Yields
  <2>2. Planned' = Planned /\ Len(dispatch') = Len(calls') /\ answered' = answered
    BY <1>1, <2>1 DEF Planned, answered
  <2>3. pending' = <<>>
    BY <2>1 DEF ShowingInvariant
  <2>4. Len(pending') = 0
    BY <2>3
  <2> HIDE DEF Planned, answered
  <2> QED BY <1>2, <2>1, <2>2, <2>4 DEF OrderInvariant
<1>4. CASE AwaitTool
  <2>1. /\ pc = "tools" /\ out = <<>> /\ UNCHANGED <<handler, iteration, calls, dispatch, pending, events>>
        /\ \/ Ends("aborted")
           \/ pc' = "awaiting" /\ out' = <<>> /\ awaited' = awaited + 1
    BY <1>4 DEF AwaitTool, At, Yields, dispatchVars
  <2>2. CASE Ends("aborted")
    BY <2>1, <2>2, EndKeepsOrder
  <2>3. CASE pc' = "awaiting" /\ out' = <<>> /\ awaited' = awaited + 1
    <3>1. Planned' = Planned /\ answered' = answered
      BY <1>1, <2>1, <2>3 DEF Planned, answered
    <3> HIDE DEF Planned, answered
    <3> QED BY <1>2, <2>1, <2>3, <3>1 DEF OrderInvariant
  <2> QED BY <2>1, <2>2, <2>3
<1>5. CASE ToolAnswered
  <2>1. /\ pc = "awaiting" /\ out = <<>>
        /\ UNCHANGED <<handler, iteration, calls, dispatch, pending, events, awaited>>
        /\ \/ Ends("threw") \/ Ends("aborted")
           \/ pc' = "tools" /\ out' = Reports(awaited)
    BY <1>5 DEF ToolAnswered, At, Yields, dispatchVars
  <2>2. CASE Ends("threw") \/ Ends("aborted")
    BY <2>1, <2>2, EndKeepsOrder
  <2>3. CASE pc' = "tools" /\ out' = Reports(awaited)
    <3>1. /\ Planned = events /\ events \in Seq(Events) /\ answered = awaited - 1 /\ answered' = awaited
          /\ Planned' = events \o Reports(awaited)
      BY <2>1, <2>3 DEF Planned, StreamTypes, answered
    <3>2. awaited \in 1 .. Len(dispatch) /\ Len(dispatch) = Len(calls)
      BY <2>1 DEF ShowingInvariant, OrderInvariant
    <3>3. /\ Orderly(events)
          /\ \A type \in ToolTypes : \A c \in Named(events, type) : c[1] <= iteration
          /\ \A i \in 1 .. Len(calls) : Call(i) \in Named(events, "toolStarted")
          /\ \A c \in Named(events, "toolStarted") \ Named(events, "toolResult") :
               \E i \in awaited .. Len(calls) : c = Call(i)
          /\ \A c \in Named(events, "toolResult") :
               c[1] < iteration \/ \E i \in 1 .. awaited - 1 : c = Call(i)
          /\ \A j \in 1 .. Len(pending) : \E i \in 1 .. Len(dispatch) : pending[j] = Call(i)
      <4>1. awaited - 1 + 1 = awaited
        BY <1>1
      <4>2. /\ Orderly(Planned)
            /\ \A type \in ToolTypes : \A c \in Named(Planned, type) : c[1] <= iteration
            /\ \A i \in 1 .. Len(calls) : Call(i) \in Named(Planned, "toolStarted")
            /\ \A c \in Named(Planned, "toolStarted") \ Named(Planned, "toolResult") :
                 \E i \in answered + 1 .. Len(calls) : c = Call(i)
            /\ \A c \in Named(Planned, "toolResult") :
                 c[1] < iteration \/ \E i \in 1 .. answered : c = Call(i)
            /\ \A j \in 1 .. Len(pending) : \E i \in 1 .. Len(dispatch) : pending[j] = Call(i)
        BY <2>1 DEF OrderInvariant
      <4> QED BY <3>1, <4>1, <4>2
    <3>4. \A c \in Named(events, "toolResult") : Lex(c, Call(awaited))
      <4>1. \A i \in 1 .. awaited - 1 : i \in Nat /\ i < awaited
        BY <1>1
      <4> QED BY <1>1, <3>3, <4>1, LexCalls
    <3>5. \A c \in Named(events, "toolStarted") :
            Lex(c, Call(awaited)) => c \in Named(events, "toolResult")
      <4>1. \A i \in awaited .. Len(calls) : i \in Nat /\ ~(i < awaited)
        BY <1>1
      <4> QED BY <1>1, <3>3, <4>1, LexCalls
    <3>6. Call(awaited) \in Named(events, "toolStarted")
      BY <3>2, <3>3
    <3>7. /\ Orderly(Planned') /\ Named(Planned', "toolStarted") = Named(events, "toolStarted")
          /\ Named(Planned', "toolResult") = Named(events, "toolResult") \cup {Call(awaited)}
          /\ \A type \in ToolTypes : Named(Planned', type) \subseteq Named(events, type) \cup {Call(awaited)}
      BY <1>1, <3>1, <3>3, <3>4, <3>5, <3>6, ReportsFollow
    <3>8. \A type \in ToolTypes : \A c \in Named(Planned', type) : c[1] <= iteration'
      <4>1. Call(awaited)[1] <= iteration
        BY <1>1, LexCalls
      <4> QED BY <2>1, <3>3, <3>7, <4>1
    <3>9. \A i \in 1 .. Len(calls') : Call(i)' \in Named(Planned', "toolStarted")
      BY <1>2, <2>1, <3>3, <3>7
    <3>10. \A c \in Named(Planned', "toolStarted") \ Named(Planned', "toolResult") :
             \E i \in answered' + 1 .. Len(calls') : c = Call(i)'
      <4> SUFFICES ASSUME NEW c \in Named(Planned', "toolStarted") \ Named(Planned', "toolResult")
                   PROVE  \E i \in answered' + 1 .. Len(calls') : c = Call(i)'
        OBVIOUS
      <4>1. PICK i \in awaited .. Len(calls) : c = Call(i)
        BY <3>3, <3>7
      <4>2. i # awaited
        BY <3>7, <4>1
      <4>3. i \in awaited + 1 .. Len(calls)
        BY <1>1, <4>2
      <4> QED BY <1>2, <2>1, <3>1, <4>1, <4>3
    <3>11. \A c \in Named(Planned', "toolResult") :
             c[1] < iteration' \/ \E i \in 1 .. answered' : c = Call(i)'
      <4>1. awaited \in 1 .. awaited /\ 1 .. awaited - 1 \subseteq 1 .. awaited
        BY <1>1, <3>2
      <4> QED BY <1>2, <2>1, <3>1, <3>3, <3>7, <4>1
    <3>12. /\ Len(dispatch') = Len(calls')
           /\ \A j \in 1 .. Len(pending') : \E i \in 1 .. Len(dispatch') : pending'[j] = Call(i)'
      BY <1>2, <2>1, <3>2, <3>3
    <3> HIDE DEF Planned, answered
    <3> QED BY <2>3, <3>7, <3>8, <3>9, <3>10, <3>11, <3>12 DEF OrderInvariant
  <2> QED BY <2>1, <2>2, <2>3
<1> QED BY <1>3, <1>4, <1>5

(* The end of the batch: every call of it has been answered.               *)
LEMMA BatchEndKeepsOrder ==
  ASSUME TypeInvariant, StreamTypes, OrderInvariant, Streaming, StreamBatchEnds
  PROVE  OrderInvariant'
<1>1. /\ iteration \in Nat /\ pending \in Seq(Artifacts) /\ calls \in Seq(CalledNames)
      /\ events \in Seq(Events) /\ awaited \in Nat
  BY ShowingFacts DEF StreamTypes
<1>2. /\ pc = "tools" /\ out = <<>> /\ awaited = Len(dispatch) /\ pc' = "iterate"
      /\ UNCHANGED <<handler, iteration, events>>
  BY DEF StreamBatchEnds, At, Yields
<1> DEFINE completion == <<Event("iterationCompleted")>>
           s1 == events \o ArtifactEvents
<1>3. ArtifactEvents \in Seq(Events) /\ completion \in Seq(Events)
  <2>1. <<0, 0>> \in Nat \X Nat /\ "iterationCompleted" \in EventTypes
    BY DEF EventTypes
  <2>2. Event("iterationCompleted") \in Events
    BY <2>1, EventFields
  <2> QED BY <1>1, <2>2, ArtifactEventsAre
<1>4. Planned = events /\ Planned' = s1 \o completion
  <2>1. out' = Append(ArtifactEvents, Event("iterationCompleted"))
    BY DEF StreamBatchEnds, Yields
  <2>2. Append(ArtifactEvents, Event("iterationCompleted")) = ArtifactEvents \o completion
    BY <1>3
  <2> HIDE DEF completion
  <2>3. ArtifactEvents \in Seq(Events)
    BY <1>3
  <2>4. completion \in Seq(Events)
    BY <1>3
  <2>5. events \in Seq(Events)
    BY <1>1
  <2>6. events \o (ArtifactEvents \o completion) = (events \o ArtifactEvents) \o completion
    BY <2>3, <2>4, <2>5, Associates
  <2>7. Planned = events
    BY <1>2, <2>5 DEF Planned
  <2>8. Planned' = events \o (ArtifactEvents \o completion)
    BY <1>2, <2>1, <2>2 DEF Planned
  <2> QED BY <2>6, <2>7, <2>8
<1>5. /\ Orderly(events) /\ Len(dispatch) = Len(calls)
      /\ \A type \in ToolTypes : \A c \in Named(events, type) : c[1] <= iteration
      /\ \A c \in Named(events, "toolStarted") \ Named(events, "toolResult") :
           \E i \in awaited + 1 .. Len(calls) : c = Call(i)
      /\ \A i \in 1 .. awaited : Call(i) \in Named(events, "toolResult")
      /\ \A j \in 1 .. Len(pending) : \E i \in 1 .. Len(dispatch) : pending[j] = Call(i)
  <2>1. answered = awaited
    BY <1>2 DEF answered
  <2> QED BY <1>2, <1>4, <2>1 DEF OrderInvariant
<1>6. Named(events, "toolStarted") \subseteq Named(events, "toolResult")
  <2>1. awaited + 1 .. Len(calls) = {}
    BY <1>1, <1>2, <1>5
  <2> QED BY <1>5, <2>1
<1>7. \A j \in 1 .. Len(pending) : pending[j] \in Named(events, "toolResult")
  BY <1>2, <1>5
<1>8. s1 \in Seq(Events) /\ Orderly(s1) /\ ToldAlike(events, s1)
  BY <1>1, <1>5, <1>7, ArtifactsFollow
<1> HIDE DEF s1
<1>9. Named(s1, "toolStarted") \subseteq Named(s1, "toolResult")
  BY <1>6, <1>8 DEF ToldAlike, ToolTypes
<1>10. Named(s1, "toolStarted") \subseteq Named(s1, "toolCompleted") \cup Named(s1, "toolFailed")
  BY <1>8, <1>9, ResultsHaveVerdicts
<1>11. Orderly(s1 \o completion) /\ ToldAlike(s1, s1 \o completion)
  BY <1>8, <1>10, CompletionFollows
<1> HIDE DEF completion
<1>12. /\ Orderly(Planned') /\ Named(Planned', "toolStarted") \subseteq Named(Planned', "toolResult")
       /\ \A type \in ToolTypes : \A c \in Named(Planned', type) : c[1] <= iteration'
  BY <1>2, <1>4, <1>5, <1>8, <1>9, <1>11 DEF ToldAlike, ToolTypes
<1> QED BY <1>2, <1>12 DEF OrderInvariant

LEMMA ToolStepKeepsOrder ==
  ASSUME TypeInvariant, StreamTypes, OrderInvariant, ToolStep, UNCHANGED streamingVars
  PROVE  OrderInvariant'
<1>1. PICK i \in DOMAIN dispatch : RunTool(i) \/ AfterTool(i)
  BY DEF ToolStep
<1>2. /\ UNCHANGED <<handler, pc, iteration, calls, awaited, events, out>>
      /\ dispatch \in Seq(Dispatched) /\ i \in 1 .. Len(dispatch) /\ pending \in Seq(Artifacts)
  BY ShowingFacts DEF ToolStep, streamingVars
<1>3. /\ \E result : dispatch' = [dispatch EXCEPT ![i] = result]
      /\ pending' = pending \/ pending' = Append(pending, Call(i))
  BY <1>1 DEF RunTool, AfterTool, createArtifact
<1>4. Len(dispatch') = Len(dispatch) /\ Planned' = Planned
  BY <1>2, <1>3 DEF Planned
<1>5. \A j \in 1 .. Len(pending') : \/ j \in 1 .. Len(pending) /\ pending'[j] = pending[j]
                                    \/ pending'[j] = Call(i)
  BY <1>2, <1>3
<1> HIDE DEF Planned
<1> QED BY <1>2, <1>4, <1>5, SamePlanKeepsOrder

LEMMA StreamingKeepsOrder ==
  ASSUME TypeInvariant, StreamTypes, ShowingInvariant, OrderInvariant, StreamingNext
  PROVE  OrderInvariant'
<1>1. Streaming
  BY StreamingStaysStreaming
<1>2. CASE Pull
  <2>1. UNCHANGED <<handler, iteration, calls, dispatch, pending, awaited>> /\ out # <<>>
    BY <1>2 DEF Pull, dispatchVars
  <2>2. CASE Head(out).guarded /\ signal
    BY <1>1, <1>2, <2>1, <2>2, EndKeepsOrder DEF Pull
  <2>3. CASE ~(Head(out).guarded /\ signal)
    <3>1. HandsOver /\ UNCHANGED pc
      BY <1>2, <2>1, <2>3 DEF Pull, HandsOver
    <3>2. Planned' = Planned
      BY <3>1, HandedOver
    <3>3. \A j \in 1 .. Len(pending') : j \in 1 .. Len(pending) /\ pending'[j] = pending[j]
      BY <2>1
    <3> HIDE DEF Planned
    <3> QED BY <2>1, <3>1, <3>2, <3>3, SamePlanKeepsOrder
  <2> QED BY <2>2, <2>3
<1>3. CASE CallbackThrows
  <2>1. Ends("threw") /\ UNCHANGED <<iteration, events>>
    BY <1>3 DEF CallbackThrows
  <2> QED BY <1>1, <2>1, EndKeepsOrder
<1>4. CASE StreamModelFails
  <2>1. Ends(IF signal THEN "aborted" ELSE "threw") /\ UNCHANGED <<iteration, events>>
    BY <1>4 DEF StreamModelFails
  <2> QED BY <1>1, <2>1, EndKeepsOrder
<1>5. CASE StreamReturnsAtLast
  <2>1. Ends("returned") /\ UNCHANGED <<iteration, events>>
    BY <1>5 DEF StreamReturnsAtLast
  <2> QED BY <1>1, <2>1, EndKeepsOrder
<1>6. CASE CloseGenerator
  <2>1. Ends("closed") /\ UNCHANGED <<iteration, events>>
    BY <1>6 DEF CloseGenerator
  <2> QED BY <1>1, <2>1, EndKeepsOrder
<1>7. CASE UnhandledRejection
  <2>1. Ends("crashed") /\ UNCHANGED <<iteration, events>>
    BY <1>7 DEF UnhandledRejection
  <2> QED BY <1>1, <2>1, EndKeepsOrder
<1>8. CASE ToolStep /\ UNCHANGED streamingVars
  BY <1>8, ToolStepKeepsOrder
<1>9. CASE StreamModelAnswers
  BY <1>1, <1>9, LoopKeepsOrder, ModelKeepsOrder DEF StreamModelAnswers
<1> QED BY <1>1, <1>2, <1>3, <1>4, <1>5, <1>6, <1>7, <1>8, <1>9, LoopKeepsOrder, BatchKeepsOrder,
           BatchEndKeepsOrder DEF StreamingNext

LEMMA OrderAlways == Spec => []OrderInvariant
<1>1. Init => OrderInvariant
  <2> SUFFICES ASSUME Init PROVE OrderInvariant
    OBVIOUS
  <2>1. pc = "start" /\ out = <<>> /\ events = <<>>
    BY Zenon DEF Init, AgentInit, StreamingInit
  <2>2. Planned = <<>> /\ Len(<<>>) = 0
    BY <2>1 DEF Planned
  <2>3. Orderly(Planned) /\ \A type : Named(Planned, type) = {}
    BY <2>2 DEF Orderly, Named, Earlier
  <2> QED BY <2>1, <2>3 DEF OrderInvariant
<1>2. TypeInvariant /\ StreamTypes /\ ShowingInvariant /\ OrderInvariant /\ [Next]_vars
        => OrderInvariant'
  <2> SUFFICES ASSUME TypeInvariant, StreamTypes, ShowingInvariant, OrderInvariant, [Next]_vars
               PROVE  OrderInvariant'
    OBVIOUS
  <2>1. CASE UNCHANGED <<handler, pc, iteration, calls, dispatch, pending, events, out, awaited>>
    <3>1. Planned' = Planned /\ \A j \in 1 .. Len(pending') : j \in 1 .. Len(pending) /\ pending'[j] = pending[j]
      BY <2>1 DEF Planned
    <3> HIDE DEF Planned
    <3> QED BY <2>1, <3>1, SamePlanKeepsOrder
  <2>2. CASE AbortRun
    BY <2>1, <2>2 DEF AbortRun, Abort, dispatchVars, streamingVars
  <2>3. CASE UNCHANGED vars
    BY <2>1, <2>3 DEF vars, agentVars, dispatchVars, streamingVars
  <2>4. CASE BackgroundNext
    <3>1. handler' = "background"
      BY <2>4 DEF BackgroundNext, StartBackground, BeforeAgent, CallModel, ModelFails, ModelAnswers,
           AnswersFinally, AsksForInput, AnswersWithoutTools, DispatchTools, Answering, AfterAgent,
           BatchRejected, BatchEnds, ToolStep, Background
    <3> QED BY <3>1 DEF OrderInvariant, Streaming
  <2>5. CASE StreamingNext
    BY <2>5, StreamingKeepsOrder
  <2> QED BY <2>2, <2>3, <2>4, <2>5 DEF Next
<1> QED BY <1>1, <1>2, TypesAlways, StreamsAlways, PTL DEF Spec

(* The stream tells of calls, verdicts, results, artifacts and iterations  *)
(* in an order a client can follow, whatever order the tools end in.       *)
THEOREM StreamsInOrder == Spec => []EventsInOrder
<1>1. TypeInvariant /\ StreamTypes /\ SilentBackground /\ OrderInvariant => EventsInOrder
  <2> SUFFICES ASSUME TypeInvariant, StreamTypes, SilentBackground, OrderInvariant
               PROVE  EventsInOrder
    OBVIOUS
  <2>1. events \in Seq(Events) /\ DOMAIN events = 1 .. Len(events) /\ Len(events) \in Nat
    BY DEF StreamTypes
  <2>2. Orderly(events)
    <3>1. CASE Streaming
      BY <3>1, OrderlyPrefix DEF OrderInvariant, Planned, StreamTypes
    <3>2. CASE Background
      BY <3>2 DEF SilentBackground, Orderly
    <3> QED BY <3>1, <3>2 DEF TypeInvariant, Background, Streaming
  <2>3. \A p \in 1 .. Len(events) : Follows(events, p) /\ events[p].call \in Nat \X Nat
    <3>1. \A p \in 1 .. Len(events) : events[p].call \in Named(events, events[p].type)
      BY <2>1, NamedCalls
    <3> QED BY <2>1, <2>2, <3>1, NamedCalls DEF Orderly
  <2>4. ASSUME NEW p \in 1 .. Len(events), NEW type, NEW call
        PROVE  call \in Earlier(events, p, type) <=> Before(p, type, call)
    BY DEF Earlier, Before
  <2>5. ASSUME NEW type \in {"toolStarted", "toolResult"}, NEW p \in Told(type), NEW q \in Told(type),
               p < q
        PROVE  Lex(events[p].call, events[q].call)
    <3>1. p \in 1 .. q - 1 /\ q \in 1 .. Len(events) /\ events[p].type = type /\ events[q].type = type
      BY <2>1, <2>5 DEF Told
    <3>2. events[p].call \in Earlier(events, q, type)
      BY <3>1 DEF Earlier
    <3> QED BY <2>3, <3>1, <3>2 DEF Follows
  <2>6. \A c \in Nat \X Nat : ~Lex(c, c)
    BY DEF Lex
  <2>7. ASSUME NEW type \in {"toolStarted", "toolResult"}, NEW p \in Told(type), NEW q \in Told(type),
               events[p].call = events[q].call
        PROVE  p = q
    <3>1. p \in Nat /\ q \in Nat /\ events[p].call \in Nat \X Nat
      BY <2>1, <2>3 DEF Told
    <3>2. ~(p < q) /\ ~(q < p)
      BY <2>5, <2>6, <2>7, <3>1
    <3> QED BY <3>1, <3>2
  <2>8. ASSUME NEW p \in Told("toolResult")
        PROVE  /\ \E q \in Told("toolStarted") :
                    /\ q < p /\ events[q].call = events[p].call
                    /\ \A earlier \in Told("toolStarted") :
                         earlier < q => Before(p, "toolResult", events[earlier].call)
               /\ p - 1 \in Told("toolCompleted") \cup Told("toolFailed")
               /\ events[p - 1].call = events[p].call
    <3>1. p \in 1 .. Len(events) /\ events[p].type = "toolResult"
      BY <2>1 DEF Told
    <3>2. /\ events[p].call \in Earlier(events, p, "toolStarted")
          /\ \A c \in Earlier(events, p, "toolStarted") :
               Lex(c, events[p].call) => c \in Earlier(events, p, "toolResult")
          /\ p > 1 /\ events[p - 1].type \in Verdicts /\ events[p - 1].call = events[p].call
      BY <2>3, <3>1 DEF Follows
    <3>3. PICK q \in 1 .. p - 1 : events[q].type = "toolStarted" /\ events[q].call = events[p].call
      BY <3>2 DEF Earlier
    <3>4. q \in Told("toolStarted") /\ q < p
      BY <2>1, <3>1, <3>3 DEF Told
    <3>5. ASSUME NEW earlier \in Told("toolStarted"), earlier < q
          PROVE  Before(p, "toolResult", events[earlier].call)
      <4>1. Lex(events[earlier].call, events[p].call)
        BY <2>5, <3>3, <3>4, <3>5
      <4>2. earlier \in 1 .. p - 1 /\ events[earlier].type = "toolStarted"
        BY <2>1, <3>1, <3>4, <3>5 DEF Told
      <4>3. events[earlier].call \in Earlier(events, p, "toolStarted")
        BY <4>2 DEF Earlier
      <4>4. events[earlier].call \in Earlier(events, p, "toolResult")
        BY <3>2, <4>1, <4>3
      <4> QED BY <2>4, <3>1, <4>4
    <3>6. p - 1 \in 1 .. Len(events)
      BY <2>1, <3>1, <3>2
    <3> QED BY <2>1, <3>2, <3>3, <3>4, <3>5, <3>6 DEF Told, Verdicts
  <2>9. ASSUME NEW p \in Told("artifactCreated") PROVE Before(p, "toolResult", events[p].call)
    <3>1. p \in 1 .. Len(events) /\ events[p].type = "artifactCreated"
      BY <2>1 DEF Told
    <3>2. events[p].call \in Earlier(events, p, "toolResult")
      BY <2>3, <3>1 DEF Follows
    <3> QED BY <2>4, <3>1, <3>2
  <2>10. ASSUME NEW p \in Told("iterationCompleted"), NEW q \in Told("toolStarted"), q < p
         PROVE  Before(p, "toolCompleted", events[q].call) \/ Before(p, "toolFailed", events[q].call)
    <3>1. /\ p \in 1 .. Len(events) /\ events[p].type = "iterationCompleted"
          /\ q \in 1 .. p - 1 /\ events[q].type = "toolStarted"
      BY <2>1, <2>10 DEF Told
    <3>2. events[q].call \in Earlier(events, p, "toolStarted")
      BY <3>1 DEF Earlier
    <3>3. events[q].call \in Earlier(events, p, "toolCompleted") \cup Earlier(events, p, "toolFailed")
      BY <2>3, <3>1, <3>2 DEF Follows
    <3> QED BY <2>4, <3>1, <3>3
  <2> QED BY <2>7, <2>8, <2>9, <2>10 DEF EventsInOrder
<1> QED BY <1>1, TypesAlways, StreamsAlways, OrderAlways, PTL
-----------------------------------------------------------------------------
(* ConversationSound.  The messages of a conversation.                     *)
Messages ==
  {System, [role |-> "user"]} \cup [role : {"assistant"}, calls : Seq(CalledNames)]
    \cup [role : {"tool"}, call : Nat \X Nat, ok : BOOLEAN]

LEMMA MessageRoles ==
  /\ System \in Messages /\ System.role = "system"
  /\ [role |-> "user"] \in Messages /\ [role |-> "user"].role = "user"
  /\ \A names \in Seq(CalledNames) :
       /\ Assistant(names) \in Messages
       /\ Assistant(names).role = "assistant" /\ Assistant(names).calls = names
  /\ \A call \in Nat \X Nat, ok \in BOOLEAN :
       /\ ToolAnswer(call, ok) \in Messages /\ ToolAnswer(call, ok).role = "tool"
       /\ ToolAnswer(call, ok).call = call /\ ToolAnswer(call, ok).ok = ok
  /\ \A m \in Messages : m.role = "assistant" => m.calls \in Seq(CalledNames)
BY DEF Messages, System, Assistant, ToolAnswer

(* What was asked has been answered, and nothing else.                     *)
Closed(chat) ==
  /\ chat \in Seq(Messages)
  /\ \A p \in Asking(chat) : AnsweredAt(chat, p)
  /\ \A q \in ToolAnswers(chat) : \E p \in Asking(chat) : q - p \in DOMAIN chat[p].calls

(* The last calls, names, have been answered up to the k-th.               *)
Owes(chat, names, k) ==
  \E before, answers \in Seq(Messages) :
    /\ Closed(before)
    /\ chat = Append(before, Assistant(names)) \o answers
    /\ Len(answers) = k
    /\ \A i \in 1 .. k : answers[i].role = "tool" /\ answers[i].call[2] = i

LEMMA CallsAreOwed ==
  ASSUME NEW chat, Closed(chat), NEW names \in Seq(CalledNames)
  PROVE  /\ Append(chat, Assistant(names)) \in Seq(Messages)
         /\ Owes(Append(chat, Assistant(names)), names, 0)
<1>1. chat \in Seq(Messages) /\ Assistant(names) \in Messages
  BY MessageRoles DEF Closed
<1>2. Append(chat, Assistant(names)) \in Seq(Messages)
  BY <1>1, AppendProperties
<1>3. Append(chat, Assistant(names)) \o <<>> = Append(chat, Assistant(names))
  BY <1>2, ConcatEmptySeq
<1>4. <<>> \in Seq(Messages) /\ Len(<<>>) = 0 /\ 1 .. 0 = {}
  OBVIOUS
<1>5. Owes(Append(chat, Assistant(names)), names, 0)
  <2> SUFFICES \E before, answers \in Seq(Messages) :
        /\ Closed(before)
        /\ Append(chat, Assistant(names)) = Append(before, Assistant(names)) \o answers
        /\ Len(answers) = 0
        /\ \A i \in 1 .. 0 : answers[i].role = "tool" /\ answers[i].call[2] = i
    BY Zenon DEF Owes
  <2> chat \in Seq(Messages) /\ <<>> \in Seq(Messages)
    BY <1>1, <1>4
  <2> WITNESS chat \in Seq(Messages), <<>> \in Seq(Messages)
  <2> QED BY <1>3, <1>4
<1> QED BY <1>2, <1>5

LEMMA AnswersAreTaken ==
  ASSUME NEW chat, NEW names \in Seq(CalledNames), NEW k \in Nat, Owes(chat, names, k),
         NEW more \in Seq(Messages),
         \A i \in 1 .. Len(more) : more[i].role = "tool" /\ more[i].call[2] = k + i
  PROVE  chat \o more \in Seq(Messages) /\ Owes(chat \o more, names, k + Len(more))
<1>1. PICK before \in Seq(Messages), answers \in Seq(Messages) :
        /\ Closed(before)
        /\ chat = Append(before, Assistant(names)) \o answers
        /\ Len(answers) = k
        /\ \A i \in 1 .. k : answers[i].role = "tool" /\ answers[i].call[2] = i
  BY DEF Owes
<1> DEFINE asked == Append(before, Assistant(names))
           all == answers \o more
<1>2. asked \in Seq(Messages)
  BY MessageRoles, AppendProperties
<1> HIDE DEF asked
<1>3. chat = asked \o answers /\ chat \o more = asked \o all /\ chat \o more \in Seq(Messages)
  <2>1. chat = asked \o answers
    BY <1>1 DEF asked
  <2>2. chat \o more = asked \o all
    <3>1. (asked \o answers) \o more = asked \o (answers \o more)
      BY <1>2, ConcatAssociative
    <3> QED BY <2>1, <3>1
  <2>3. all \in Seq(Messages)
    BY <1>1, ConcatProperties
  <2> HIDE DEF all
  <2> QED BY Zenon, <1>2, <2>1, <2>2, <2>3, ConcatProperties
<1>4. /\ all \in Seq(Messages) /\ Len(all) = k + Len(more)
      /\ \A i \in 1 .. k + Len(more) : all[i] = IF i <= k THEN answers[i] ELSE more[i - k]
  BY <1>1, ConcatProperties
<1> HIDE DEF all
<1>5. ASSUME NEW i \in 1 .. k + Len(more) PROVE all[i].role = "tool" /\ all[i].call[2] = i
  <2>1. CASE i <= k
    BY <1>1, <1>4, <2>1
  <2>2. CASE i > k
    <3>1. i - k \in 1 .. Len(more) /\ k + (i - k) = i
      BY <2>2
    <3> QED BY <1>4, <2>2, <3>1
  <2> QED BY <2>1, <2>2
<1> QED BY <1>1, <1>3, <1>4, <1>5 DEF Owes, asked

(* When the last call is answered nothing is owed any more.                *)
LEMMA BatchCloses ==
  ASSUME NEW chat, NEW names \in Seq(CalledNames), names # <<>>, Owes(chat, names, Len(names))
  PROVE  Closed(chat)
<1>1. PICK before \in Seq(Messages), answers \in Seq(Messages) :
        /\ Closed(before)
        /\ chat = Append(before, Assistant(names)) \o answers
        /\ Len(answers) = Len(names)
        /\ \A i \in 1 .. Len(names) : answers[i].role = "tool" /\ answers[i].call[2] = i
  BY DEF Owes
<1> DEFINE n == Len(before)
           m == Len(names)
           asking == Assistant(names)
<1>2. asking \in Messages /\ asking.role = "assistant" /\ asking.calls = names
  BY MessageRoles
<1> HIDE DEF asking
<1>3. n \in Nat /\ m \in Nat /\ m # 0 /\ DOMAIN names = 1 .. m
  OBVIOUS
<1>4. /\ chat \in Seq(Messages) /\ DOMAIN chat = 1 .. n + 1 + m
      /\ \A i \in 1 .. n : chat[i] = before[i]
      /\ chat[n + 1] = asking
      /\ \A i \in 1 .. m : chat[n + 1 + i] = answers[i]
  <2>1. /\ Append(before, asking) \in Seq(Messages) /\ Len(Append(before, asking)) = n + 1
        /\ \A i \in 1 .. n : Append(before, asking)[i] = before[i]
        /\ Append(before, asking)[n + 1] = asking
    BY <1>2, AppendProperties
  <2> DEFINE asked == Append(before, asking)
  <2> HIDE DEF asked
  <2>2. chat = asked \o answers /\ asked \in Seq(Messages) /\ Len(asked) = n + 1
    BY <1>1, <2>1 DEF asked, asking
  <2>3. /\ chat \in Seq(Messages) /\ Len(chat) = n + 1 + m
        /\ \A i \in 1 .. n + 1 + m : chat[i] = IF i <= n + 1 THEN asked[i] ELSE answers[i - (n + 1)]
    <3>1. answers \in Seq(Messages) /\ Len(answers) = m
      BY <1>1
    <3>2. /\ asked \o answers \in Seq(Messages)
          /\ Len(asked \o answers) = Len(asked) + Len(answers)
          /\ \A i \in 1 .. Len(asked) + Len(answers) :
               (asked \o answers)[i] = IF i <= Len(asked) THEN asked[i] ELSE answers[i - Len(asked)]
      <4>1. asked \in Seq(Messages) /\ answers \in Seq(Messages)
        BY <2>2
      <4> QED BY Zenon, <4>1, ConcatProperties
    <3> HIDE DEF n, m
    <3> QED BY <2>2, <3>1, <3>2
  <2>4. \A i \in 1 .. n + 1 : chat[i] = asked[i]
    BY <1>3, <2>3
  <2>5. ASSUME NEW i \in 1 .. m PROVE chat[n + 1 + i] = answers[i]
    <3>1. n + 1 + i \in 1 .. n + 1 + m /\ ~(n + 1 + i <= n + 1) /\ (n + 1 + i) - (n + 1) = i
      BY <1>3
    <3> QED BY <2>3, <3>1
  <2>6. \A i \in 1 .. n : i \in 1 .. n + 1 /\ asked[i] = before[i]
    BY <1>3, <2>1 DEF asked
  <2>7. n + 1 \in 1 .. n + 1 /\ asked[n + 1] = asking /\ DOMAIN chat = 1 .. n + 1 + m
    BY <1>3, <2>1, <2>3 DEF asked
  <2> QED BY <2>3, <2>4, <2>5, <2>6, <2>7
<1>5. /\ DOMAIN before = 1 .. n /\ \A p \in Asking(before) : AnsweredAt(before, p)
      /\ \A q \in ToolAnswers(before) : \E p \in Asking(before) : q - p \in DOMAIN before[p].calls
  BY <1>1 DEF Closed
<1>6. \A p \in 1 .. n : /\ p \in Asking(chat) <=> p \in Asking(before)
                        /\ p \in ToolAnswers(chat) <=> p \in ToolAnswers(before)
  BY <1>3, <1>4, <1>5 DEF Asking, ToolAnswers
<1>7. n + 1 \in Asking(chat) /\ \A i \in 1 .. m : n + 1 + i \notin Asking(chat)
  BY <1>1, <1>2, <1>3, <1>4 DEF Asking
<1>8. \A p \in 1 .. n + 1 + m : p \in 1 .. n \/ p = n + 1 \/ (p - (n + 1) \in 1 .. m /\ p = n + 1 + (p - (n + 1)))
  BY <1>3
<1>9. ASSUME NEW p \in Asking(chat) PROVE AnsweredAt(chat, p)
  <2>1. p \in 1 .. n + 1 + m
    BY <1>4, <1>9 DEF Asking
  <2>2. CASE p \in 1 .. n
    <3>1. AnsweredAt(before, p) /\ chat[p] = before[p]
      BY <1>4, <1>5, <1>6, <2>2
    <3> SUFFICES ASSUME NEW i \in DOMAIN chat[p].calls
                 PROVE  p + i \in DOMAIN chat /\ chat[p + i].role = "tool" /\ chat[p + i].call[2] = i
      BY DEF AnsweredAt
    <3>2. p + i \in 1 .. n /\ before[p + i].role = "tool" /\ before[p + i].call[2] = i
      BY <1>5, <3>1 DEF AnsweredAt
    <3> QED BY <1>3, <1>4, <3>2
  <2>3. CASE p = n + 1
    BY <1>1, <1>2, <1>3, <1>4, <2>3 DEF AnsweredAt
  <2> QED BY <1>7, <1>8, <2>1, <2>2, <2>3
<1>10. ASSUME NEW q \in ToolAnswers(chat) PROVE \E p \in Asking(chat) : q - p \in DOMAIN chat[p].calls
  <2>1. q \in 1 .. n + 1 + m /\ chat[q].role = "tool"
    BY <1>4, <1>10 DEF ToolAnswers
  <2>2. CASE q \in 1 .. n
    <3>1. PICK p \in Asking(before) : q - p \in DOMAIN before[p].calls
      BY <1>5, <1>6, <2>2
    <3>2. p \in 1 .. n
      BY <1>5 DEF Asking
    <3> QED BY <1>4, <1>6, <3>1, <3>2
  <2>3. CASE q - (n + 1) \in 1 .. m
    BY <1>2, <1>3, <1>4, <1>7, <2>3
  <2>4. q # n + 1
    BY <1>2, <1>4, <2>1
  <2> QED BY <1>8, <2>1, <2>2, <2>3, <2>4
<1> QED BY <1>4, <1>9, <1>10 DEF Closed

(* A set of numbers in two parts, those up to n and those beyond it.       *)
UpTo(C, n) == {i \in 1 .. n : i \in C}
Beyond(C, n, m) == {i \in 1 .. m : n + i \in C}

LEMMA TwoParts ==
  ASSUME NEW n \in Nat, NEW m \in Nat, NEW C \in SUBSET (1 .. n + m)
  PROVE  /\ Cardinality(UpTo(C, n)) \in Nat
         /\ Cardinality(C) = Cardinality(UpTo(C, n)) + Cardinality(Beyond(C, n, m))
<1> DEFINE A == {i \in 1 .. n : i \in C}
           B == {i \in 1 .. m : n + i \in C}
<1>0. A \in SUBSET (1 .. n) /\ B \in SUBSET (1 .. m)
  OBVIOUS
<1>1. IsFiniteSet(1 .. n) /\ IsFiniteSet(1 .. m) /\ IsFiniteSet(1 .. n + m)
  BY FS_Interval
<1>2. IsFiniteSet(A) /\ IsFiniteSet(B) /\ IsFiniteSet(C)
  <2> HIDE DEF A, B
  <2> QED BY <1>0, <1>1, FS_Subset
<1>3. Cardinality(A) \in Nat /\ Cardinality(B) \in Nat
  BY <1>2, FS_CardinalityType
<1> DEFINE D == C \ A
           shift == [i \in B |-> n + i]
<1>4. \A x \in D : x - n \in B /\ x = n + (x - n)
  <2> SUFFICES ASSUME NEW x \in D PROVE x - n \in B /\ x = n + (x - n)
    OBVIOUS
  <2>1. x \in 1 .. n + m /\ ~(x \in 1 .. n)
    OBVIOUS
  <2>2. x - n \in 1 .. m /\ x = n + (x - n)
    BY <2>1
  <2> QED BY <2>2
<1>5. \A i \in B : n + i \in D
  <2> SUFFICES ASSUME NEW i \in B PROVE n + i \in C /\ n + i \notin A
    OBVIOUS
  <2>1. i \in 1 .. m /\ n + i \notin 1 .. n
    OBVIOUS
  <2> QED BY <2>1
<1>6. C = A \cup D /\ A \cap D = {}
  OBVIOUS
<1> HIDE DEF A, B, D
<1>7. shift \in Bijection(B, D)
  <2>1. shift \in [B -> D] /\ \A x \in D : \E i \in B : shift[i] = x
    BY <1>4, <1>5
  <2>2. \A i, j \in B : shift[i] = shift[j] => i = j
    <3>1. \A i \in B : i \in Nat
      BY <1>0
    <3> QED BY <3>1
  <2> HIDE DEF shift
  <2> QED BY <2>1, <2>2 DEF Bijection, Injection, Surjection, IsInjective
<1> HIDE DEF shift
<1>8. IsFiniteSet(D) /\ Cardinality(D) = Cardinality(B)
  BY <1>2, <1>7, FS_Bijection DEF ExistsBijection
<1>9. Cardinality(C) = Cardinality(A) + Cardinality(D) - Cardinality({})
  BY <1>2, <1>6, <1>8, FS_Union
<1>10. Cardinality({}) = 0
  BY FS_EmptySet
<1> QED BY <1>3, <1>8, <1>9, <1>10 DEF A, B, UpTo, Beyond

LEMMA AnswersAdd ==
  ASSUME NEW chat \in Seq(Messages), NEW more \in Seq(Messages)
  PROVE  /\ chat \o more \in Seq(Messages)
         /\ Cardinality(ToolAnswers(chat)) \in Nat /\ Cardinality(FailedAnswers(chat)) \in Nat
         /\ Cardinality(ToolAnswers(chat \o more))
              = Cardinality(ToolAnswers(chat)) + Cardinality(ToolAnswers(more))
         /\ Cardinality(FailedAnswers(chat \o more))
              = Cardinality(FailedAnswers(chat)) + Cardinality(FailedAnswers(more))
<1> DEFINE n == Len(chat)
           m == Len(more)
           all == chat \o more
<1>1. /\ n \in Nat /\ m \in Nat /\ DOMAIN chat = 1 .. n /\ DOMAIN more = 1 .. m
  OBVIOUS
<1>2. /\ all \in Seq(Messages) /\ Len(all) = n + m /\ DOMAIN all = 1 .. n + m
      /\ \A i \in 1 .. n + m : all[i] = IF i <= n THEN chat[i] ELSE more[i - n]
  BY ConcatProperties
<1> HIDE DEF all, n, m
<1>3. \A i \in 1 .. n : i \in 1 .. n + m /\ all[i] = chat[i]
  BY <1>1, <1>2
<1>4. ASSUME NEW i \in 1 .. m PROVE n + i \in 1 .. n + m /\ all[n + i] = more[i]
  <2>1. n + i \in 1 .. n + m /\ ~(n + i <= n) /\ (n + i) - n = i
    BY <1>1
  <2> QED BY <1>2, <2>1
<1>5. /\ ToolAnswers(chat) \in SUBSET (1 .. n) /\ ToolAnswers(more) \in SUBSET (1 .. m)
      /\ ToolAnswers(all) \subseteq 1 .. n + m
      /\ \A i \in 1 .. n : i \in ToolAnswers(all) <=> i \in ToolAnswers(chat)
      /\ \A i \in 1 .. m : n + i \in ToolAnswers(all) <=> i \in ToolAnswers(more)
  BY <1>1, <1>2, <1>3, <1>4 DEF ToolAnswers
<1>6. /\ FailedAnswers(chat) \in SUBSET (1 .. n) /\ FailedAnswers(more) \in SUBSET (1 .. m)
      /\ FailedAnswers(all) \subseteq 1 .. n + m
      /\ \A i \in 1 .. n : i \in FailedAnswers(all) <=> i \in FailedAnswers(chat)
      /\ \A i \in 1 .. m : n + i \in FailedAnswers(all) <=> i \in FailedAnswers(more)
  BY <1>3, <1>4, <1>5 DEF FailedAnswers
<1>7. /\ Cardinality(ToolAnswers(chat)) \in Nat
      /\ Cardinality(ToolAnswers(all)) = Cardinality(ToolAnswers(chat)) + Cardinality(ToolAnswers(more))
  <2>1. /\ ToolAnswers(chat) = UpTo(ToolAnswers(all), n) /\ ToolAnswers(more) = Beyond(ToolAnswers(all), n, m)
        /\ ToolAnswers(all) \in SUBSET (1 .. n + m)
    BY <1>5 DEF UpTo, Beyond
  <2> QED BY <1>1, <2>1, TwoParts
<1>8. /\ Cardinality(FailedAnswers(chat)) \in Nat
      /\ Cardinality(FailedAnswers(all)) = Cardinality(FailedAnswers(chat)) + Cardinality(FailedAnswers(more))
  <2>1. /\ FailedAnswers(chat) = UpTo(FailedAnswers(all), n) /\ FailedAnswers(more) = Beyond(FailedAnswers(all), n, m)
        /\ FailedAnswers(all) \in SUBSET (1 .. n + m)
    BY <1>6 DEF UpTo, Beyond
  <2> QED BY <1>1, <2>1, TwoParts
<1> QED BY <1>2, <1>7, <1>8 DEF all

(* A question of the model is no answer.                                   *)
LEMMA AskingAddsNone ==
  ASSUME NEW chat \in Seq(Messages), NEW names \in Seq(CalledNames)
  PROVE  /\ Append(chat, Assistant(names)) \in Seq(Messages)
         /\ Cardinality(ToolAnswers(Append(chat, Assistant(names)))) = Cardinality(ToolAnswers(chat))
         /\ Cardinality(FailedAnswers(Append(chat, Assistant(names)))) = Cardinality(FailedAnswers(chat))
<1> DEFINE asking == Assistant(names)
           after == Append(chat, asking)
<1>1. asking \in Messages /\ asking.role = "assistant"
  BY MessageRoles
<1> HIDE DEF asking
<1>2. /\ after \in Seq(Messages) /\ Len(after) = Len(chat) + 1 /\ DOMAIN after = 1 .. Len(chat) + 1
      /\ \A i \in 1 .. Len(chat) : after[i] = chat[i]
      /\ after[Len(chat) + 1] = asking
  BY <1>1, AppendProperties
<1>3. Len(chat) \in Nat /\ DOMAIN chat = 1 .. Len(chat)
  OBVIOUS
<1> HIDE DEF after
<1>4. \A i : i \in 1 .. Len(chat) + 1 <=> i \in 1 .. Len(chat) \/ i = Len(chat) + 1
  BY <1>3
<1>5. ToolAnswers(after) = ToolAnswers(chat)
  BY <1>1, <1>2, <1>3, <1>4 DEF ToolAnswers
<1>6. FailedAnswers(after) = FailedAnswers(chat)
  <2>1. \A i \in ToolAnswers(chat) : after[i] = chat[i]
    BY <1>2, <1>3 DEF ToolAnswers
  <2> QED BY <1>5, <2>1 DEF FailedAnswers
<1> QED BY <1>2, <1>5, <1>6 DEF after, asking

(* Each answer belongs to one call, and each call has its answer.          *)
LEMMA OneAnswerPerCall ==
  ASSUME NEW chat, Closed(chat)
  PROVE  Cardinality(ToolAnswers(chat))
           = Cardinality(UNION {{p} \X DOMAIN chat[p].calls : p \in Asking(chat)})
<1> DEFINE asked == UNION {{p} \X DOMAIN chat[p].calls : p \in Asking(chat)}
           tools == ToolAnswers(chat)
           answer == [c \in asked |-> c[1] + c[2]]
<1>1. /\ chat \in Seq(Messages) /\ Len(chat) \in Nat /\ DOMAIN chat = 1 .. Len(chat)
      /\ \A p \in Asking(chat) : AnsweredAt(chat, p)
      /\ \A q \in tools : \E p \in Asking(chat) : q - p \in DOMAIN chat[p].calls
  BY DEF Closed
<1>2. \A c : c \in asked <=> \E p \in Asking(chat) : \E i \in DOMAIN chat[p].calls : c = <<p, i>>
  OBVIOUS
<1>3. ASSUME NEW p \in Asking(chat)
      PROVE  /\ p \in 1 .. Len(chat) /\ chat[p].role = "assistant"
             /\ Len(chat[p].calls) \in Nat /\ DOMAIN chat[p].calls = 1 .. Len(chat[p].calls)
             /\ \A i \in DOMAIN chat[p].calls : p + i \in tools
  <2>1. p \in 1 .. Len(chat) /\ chat[p].role = "assistant"
    BY <1>1 DEF Asking
  <2>2. chat[p] \in Messages
    BY <1>1, <2>1
  <2>3. chat[p].calls \in Seq(CalledNames)
    BY <2>1, <2>2, MessageRoles
  <2>4. \A i \in DOMAIN chat[p].calls : p + i \in tools
    BY <1>1 DEF AnsweredAt, ToolAnswers
  <2> QED BY <2>1, <2>3, <2>4
<1>4. \A q \in tools : q \in 1 .. Len(chat) /\ chat[q].role = "tool"
  BY <1>1 DEF ToolAnswers
<1> HIDE DEF tools, asked
<1>5. answer \in [asked -> tools]
  BY <1>2, <1>3
<1>6. ASSUME NEW q \in tools PROVE \E c \in asked : answer[c] = q
  <2>1. PICK p \in Asking(chat) : q - p \in DOMAIN chat[p].calls
    BY <1>1 DEF tools
  <2>2. <<p, q - p>> \in asked
    BY <1>2, <2>1
  <2>3. answer[<<p, q - p>>] = p + (q - p) /\ p + (q - p) = q
    <3>1. p \in Nat /\ q \in Nat
      BY <1>3, <1>4
    <3> QED BY <2>2, <3>1
  <2> QED BY <2>2, <2>3
<1>7. ASSUME NEW p \in Asking(chat), NEW i \in DOMAIN chat[p].calls,
             NEW r \in Asking(chat), NEW j \in DOMAIN chat[r].calls, p + i = r + j
      PROVE  ~(p < r)
  <2> SUFFICES ASSUME p < r PROVE FALSE
    OBVIOUS
  <2>1. p \in Nat /\ r \in Nat /\ i \in 1 .. Len(chat[p].calls) /\ j \in Nat /\ j >= 1
        /\ Len(chat[p].calls) \in Nat
    BY <1>3
  <2>2. r - p \in 1 .. Len(chat[p].calls) /\ p + (r - p) = r
    BY <1>7, <2>1
  <2>3. r \in tools
    BY <1>3, <2>2
  <2> QED BY <1>3, <1>4, <2>3
<1>8. ASSUME NEW c \in asked, NEW d \in asked, answer[c] = answer[d] PROVE c = d
  <2>1. PICK p \in Asking(chat) : \E i \in DOMAIN chat[p].calls : c = <<p, i>>
    BY <1>2
  <2>2. PICK r \in Asking(chat) : \E j \in DOMAIN chat[r].calls : d = <<r, j>>
    BY <1>2
  <2>3. PICK i \in DOMAIN chat[p].calls : c = <<p, i>>
    BY <2>1
  <2>4. PICK j \in DOMAIN chat[r].calls : d = <<r, j>>
    BY <2>2
  <2>5. p + i = r + j /\ p \in Nat /\ r \in Nat /\ i \in Nat /\ j \in Nat
    BY <1>3, <1>8, <2>3, <2>4
  <2>6. ~(p < r) /\ ~(r < p)
    BY <1>7, <2>5
  <2> QED BY <2>3, <2>4, <2>5, <2>6
<1>9. IsFiniteSet(tools)
  <2>1. IsFiniteSet(1 .. Len(chat)) /\ tools \in SUBSET (1 .. Len(chat))
    BY <1>1, <1>4, FS_Interval
  <2> QED BY <2>1, FS_Subset
<1> HIDE DEF answer
<1>10. answer \in Injection(asked, tools) /\ answer \in Surjection(asked, tools)
  BY <1>5, <1>6, <1>8 DEF Injection, Surjection, IsInjective
<1>11. Cardinality(asked) = Cardinality(tools)
  BY <1>9, <1>10, FS_Injection
<1> QED BY <1>11 DEF asked, tools

(* The prompt stands first, and a conversation without one has none there. *)
Prompted(chat) ==
  /\ chat \in Seq(Messages)
  /\ SystemPrompt => chat # <<>> /\ chat[1] = System
  /\ ~SystemPrompt /\ chat # <<>> => chat[1].role # "system"

LEMMA StaysPrompted ==
  ASSUME NEW chat, Prompted(chat), NEW more \in Seq(Messages),
         more # <<>> => more[1].role # "system"
  PROVE  Prompted(chat \o more)
<1>1. /\ chat \in Seq(Messages) /\ chat \o more \in Seq(Messages)
      /\ Len(chat \o more) = Len(chat) + Len(more)
      /\ \A i \in 1 .. Len(chat) + Len(more) :
           (chat \o more)[i] = IF i <= Len(chat) THEN chat[i] ELSE more[i - Len(chat)]
  BY ConcatProperties DEF Prompted
<1>2. Len(chat) \in Nat /\ Len(more) \in Nat
  BY <1>1
<1> DEFINE all == chat \o more
<1> HIDE DEF all
<1>3. all # <<>> => Len(all) # 0
  BY <1>1 DEF all
<1>4. CASE chat # <<>>
  <2>1. Len(chat) >= 1
    BY <1>1, <1>2, <1>4
  <2>2. 1 \in 1 .. Len(chat) + Len(more) /\ 1 <= Len(chat)
    BY <1>2, <2>1
  <2>3. (chat \o more)[1] = chat[1] /\ chat \o more # <<>>
    BY <1>1, <2>2
  <2> QED BY <1>1, <1>4, <2>3 DEF Prompted
<1>5. CASE chat = <<>>
  <2>1. chat \o more = more
    BY <1>5, ConcatEmptySeq
  <2> QED BY <1>1, <1>5, <2>1 DEF Prompted
<1> QED BY <1>4, <1>5

(* The request: the prompt and the newest messages.                        *)
LEMMA Truncated ==
  ASSUME NEW chat, Prompted(chat)
  PROVE  LET request == truncateConversation(chat)
             prompt == IF SystemPrompt THEN 1 ELSE 0
             shown == Len(request) - prompt
             cut == Len(chat) - prompt - shown
         IN  /\ SystemPrompt => request[1] = System
             /\ \A i \in 1 .. shown : request[prompt + i] = chat[prompt + cut + i]
             /\ shown <= MaxConversationHistory /\ cut >= 0
             /\ cut > 0 => shown = MaxConversationHistory
<1> DEFINE prompt == IF SystemPrompt THEN 1 ELSE 0
           head == IF chat # <<>> /\ chat[1] = System THEN <<System>> ELSE <<>>
           most == MaxConversationHistory
           n == Len(chat)
           r == n - prompt
           rest == SubSeq(chat, prompt + 1, n)
           k == IF r <= most THEN r ELSE most
           tail == IF r <= most THEN rest ELSE SubSeq(rest, r - most + 1, r)
           request == truncateConversation(chat)
<1>1. chat \in Seq(Messages) /\ n \in Nat /\ most \in Nat /\ most # 0 /\ SystemPrompt \in BOOLEAN
  BY AgentConstants DEF Prompted, AgentConstants
<1>2. chat # <<>> /\ chat[1] = System <=> SystemPrompt
  BY <1>1, MessageRoles DEF Prompted
<1>3. head \in Seq(Messages) /\ Len(head) = prompt /\ (SystemPrompt => head[1] = System)
  BY <1>1, <1>2, MessageRoles
<1>4. prompt \in {0, 1} /\ (SystemPrompt => prompt = 1 /\ n >= 1) /\ r \in Nat /\ k \in Nat
  BY <1>1 DEF Prompted
<1>5. rest \in Seq(Messages) /\ Len(rest) = r /\ \A i \in 1 .. r : rest[i] = chat[prompt + i]
  <2>1. \A i \in prompt + 1 .. n : i \in 1 .. n /\ chat[i] \in Messages
    BY <1>1, <1>4
  <2>2. prompt + 1 \in Int /\ n \in Int /\ n - (prompt + 1) + 1 = r
        /\ \A i \in 1 .. r : (prompt + 1) + i - 1 = prompt + i
    BY <1>1, <1>4
  <2> HIDE DEF prompt, n, r, rest
  <2>3. /\ SubSeq(chat, prompt + 1, n) \in Seq(Messages)
        /\ Len(SubSeq(chat, prompt + 1, n)) = IF prompt + 1 <= n THEN n - (prompt + 1) + 1 ELSE 0
        /\ \A i \in 1 .. n - (prompt + 1) + 1 : SubSeq(chat, prompt + 1, n)[i] = chat[(prompt + 1) + i - 1]
    BY <2>1, <2>2, SubSeqProperties
  <2>4. prompt + 1 <= n \/ r = 0
    BY <1>1, <1>4 DEF r
  <2> QED BY <1>4, <2>2, <2>3, <2>4 DEF rest, r
<1>6. tail \in Seq(Messages) /\ Len(tail) = k /\ \A i \in 1 .. k : tail[i] = rest[r - k + i]
  <2>1. CASE r <= most
    <3>1. \A i \in 1 .. r : r - r + i = i
      BY <1>4
    <3> HIDE DEF prompt, n, r, rest
    <3> QED BY <1>5, <2>1, <3>1
  <2>2. CASE ~(r <= most)
    <3> DEFINE m == r - most + 1
    <3>1. m \in Int /\ r \in Int /\ m <= r /\ r - m + 1 = most
          /\ \A i \in 1 .. most : m + i - 1 = r - most + i
      BY <1>1, <1>4, <2>2
    <3>2. \A i \in m .. r : i \in 1 .. r
      BY <1>1, <1>4, <2>2
    <3> HIDE DEF prompt, n, r, rest, m, most
    <3>3. \A i \in m .. r : rest[i] \in Messages
      BY <1>5, <3>2
    <3>4. /\ SubSeq(rest, m, r) \in Seq(Messages)
          /\ Len(SubSeq(rest, m, r)) = IF m <= r THEN r - m + 1 ELSE 0
          /\ \A i \in 1 .. r - m + 1 : SubSeq(rest, m, r)[i] = rest[m + i - 1]
      BY <3>1, <3>3, SubSeqProperties
    <3>5. tail = SubSeq(rest, m, r) /\ k = most
      BY <2>2 DEF m
    <3> HIDE DEF tail, k
    <3> QED BY <3>1, <3>4, <3>5
  <2> QED BY <2>1, <2>2
<1>7. request = head \o tail
  <2>1. Len(head) = prompt /\ SubSeq(chat, Len(head) + 1, Len(chat)) = rest /\ Len(rest) = r
    BY <1>3, <1>5
  <2> QED BY <2>1 DEF truncateConversation
<1> HIDE DEF prompt, head, r, rest, k, tail, request, n, most
<1>8. /\ Len(request) = prompt + k
      /\ \A i \in 1 .. prompt + k : request[i] = IF i <= prompt THEN head[i] ELSE tail[i - prompt]
  BY <1>3, <1>6, <1>7, ConcatProperties
<1>9. Len(request) - prompt = k /\ n - prompt - k = r - k
  BY <1>1, <1>4, <1>8 DEF r
<1>10. SystemPrompt => request[1] = System
  BY <1>3, <1>4, <1>8
<1>11. ASSUME NEW i \in 1 .. k PROVE request[prompt + i] = chat[prompt + (r - k) + i]
  <2>1. /\ prompt + i \in 1 .. prompt + k /\ ~(prompt + i <= prompt) /\ (prompt + i) - prompt = i
        /\ r - k + i \in 1 .. r /\ prompt + (r - k + i) = prompt + (r - k) + i
    BY <1>1, <1>4 DEF k
  <2> QED BY <1>5, <1>6, <1>8, <2>1
<1>12. k <= most /\ r - k >= 0 /\ (r - k > 0 => k = most)
  BY <1>1, <1>4 DEF k
<1> QED BY <1>9, <1>10, <1>11, <1>12 DEF prompt, request, n, most

(* What a conversation begins with: no calls and no answers.               *)
Openings ==
  {chat \in Seq(Messages) :
     /\ Prompted(chat)
     /\ \A p \in 1 .. Len(chat) :
          chat[p].role # "tool" /\ (chat[p].role = "assistant" => chat[p].calls = <<>>)}

LEMMA OpeningGrows ==
  ASSUME NEW chat \in Openings, NEW m
  PROVE  Append(chat, a2aMessageToChatMessage(m)) \in Openings
<1> DEFINE x == a2aMessageToChatMessage(m)
           all == Append(chat, x)
<1>1. /\ x \in Messages /\ x.role \notin {"system", "tool"}
      /\ x.role = "assistant" => x.calls = <<>>
  <2>1. <<>> \in Seq(CalledNames)
    OBVIOUS
  <2> QED BY <2>1, MessageRoles DEF a2aMessageToChatMessage
<1> HIDE DEF x
<1>2. chat \in Seq(Messages) /\ Len(chat) \in Nat
  BY DEF Openings
<1>3. /\ all \in Seq(Messages) /\ Len(all) = Len(chat) + 1
      /\ \A i \in 1 .. Len(chat) : all[i] = chat[i]
      /\ all[Len(chat) + 1] = x
  BY <1>1, <1>2, AppendProperties
<1>4. Prompted(all)
  <2>1. all = chat \o <<x>> /\ <<x>> \in Seq(Messages) /\ <<x>>[1] = x
    BY <1>1, <1>2, AppendIsConcat
  <2>2. Prompted(chat)
    BY DEF Openings
  <2> HIDE DEF all
  <2> QED BY <1>1, <2>1, <2>2, StaysPrompted
<1> HIDE DEF all
<1>5. \A p \in 1 .. Len(all) :
        all[p].role # "tool" /\ (all[p].role = "assistant" => all[p].calls = <<>>)
  <2>1. \A p \in 1 .. Len(all) : p \in 1 .. Len(chat) \/ p = Len(chat) + 1
    BY <1>2, <1>3
  <2>2. \A p \in 1 .. Len(chat) :
          all[p].role # "tool" /\ (all[p].role = "assistant" => all[p].calls = <<>>)
    BY <1>3 DEF Openings
  <2> QED BY <1>1, <1>3, <2>1, <2>2
<1>6. all \in Openings
  BY <1>3, <1>4, <1>5 DEF Openings
<1> QED BY <1>6 DEF all, x

LEMMA ConversationOpens == buildInitialConversation(History) \in Openings
<1> DEFINE E == [role : STRING, text : BOOLEAN]
           s == History
           n == Len(History)
           isShown(m) == m.text /\ m.role \in {"ROLE_USER", "ROLE_AGENT"}
           base == IF SystemPrompt THEN <<System>> ELSE <<>>
           step == [p \in Openings \X E |->
                      IF isShown(p[2]) THEN Append(p[1], a2aMessageToChatMessage(p[2])) ELSE p[1]]
           Folded(it) == it = [w \in SUBSET (1 .. n) |->
                                 IF w = {} THEN base
                                 ELSE IF isShown(s[Max(w)])
                                      THEN Append(it[w \ {Max(w)}], a2aMessageToChatMessage(s[Max(w)]))
                                      ELSE it[w \ {Max(w)}]]
           iter == CHOOSE it : Folded(it)
<1>1. n \in Nat /\ DOMAIN s = 1 .. n /\ \A k \in 1 .. n : s[k] \in E
  <2>1. s \in Seq(E)
    BY AgentConstants DEF AgentConstants
  <2> HIDE DEF E
  <2> QED BY <2>1, LenProperties, ElementOfSeq
<1>2. base \in Openings
  <2>1. <<>> \in Seq(Messages) /\ <<System>> \in Seq(Messages) /\ <<System>>[1] = System
        /\ Len(<<System>>) = 1 /\ Len(<<>>) = 0 /\ <<System>> # <<>>
    BY MessageRoles
  <2> QED BY <2>1, MessageRoles DEF Openings, Prompted
<1> HIDE DEF base
<1>3. Folded(iter)
  <2>1. step \in [Openings \X E -> Openings]
    <3>1. \A p \in Openings \X E : p[1] \in Openings
      OBVIOUS
    <3>2. \A p \in Openings \X E : Append(p[1], a2aMessageToChatMessage(p[2])) \in Openings
      BY <3>1, OpeningGrows
    <3> QED BY <3>1, <3>2
  <2>2. PICK it \in [SUBSET (1 .. n) -> Openings] : Folding(it, base, s, n, step)
    <3> HIDE DEF step, n, E
    <3> QED BY <1>1, <1>2, <2>1, FoldingExists
  <2>3. ASSUME NEW w \in SUBSET (1 .. n), w # {}
        PROVE  step[<<it[w \ {Max(w)}], s[Max(w)]>>] =
                 IF isShown(s[Max(w)])
                 THEN Append(it[w \ {Max(w)}], a2aMessageToChatMessage(s[Max(w)]))
                 ELSE it[w \ {Max(w)}]
    <3>1. Max(w) \in 1 .. n
      BY <1>1, <2>3, MaxOfNumbers
    <3>2. s[Max(w)] \in E /\ it[w \ {Max(w)}] \in Openings
      BY <1>1, <2>2, <3>1
    <3> HIDE DEF E
    <3> QED BY <3>2
  <2> HIDE DEF step, n
  <2>4. Folded(it)
    BY <2>2, <2>3 DEF Folding
  <2> HIDE DEF Folded
  <2> QED BY <2>4
<1>4. buildInitialConversation(History) = iter[1 .. n]
  BY <1>1 DEF buildInitialConversation, FoldLeft, MapThenFoldSet, base
<1> HIDE DEF iter
<1> DEFINE Good == {k \in 0 .. n : iter[1 .. k] \in Openings}
<1>5. 0 \in Good
  <2>1. 1 .. 0 = {} /\ 0 \in 0 .. n
    BY <1>1
  <2>2. iter[{}] = base
    BY <1>3
  <2> QED BY <1>2, <2>1, <2>2
<1>6. ASSUME NEW k \in 1 .. n, k - 1 \in Good PROVE k \in Good
  <2>1. /\ 1 .. k \in SUBSET (1 .. n) /\ 1 .. k # {}
        /\ Max(1 .. k) = k /\ (1 .. k) \ {k} = 1 .. (k - 1)
    BY <1>1, LastPosition
  <2>2. iter[1 .. k] = IF isShown(s[k])
                       THEN Append(iter[1 .. (k - 1)], a2aMessageToChatMessage(s[k]))
                       ELSE iter[1 .. (k - 1)]
    <3> DEFINE w == 1 .. k
    <3>1. iter[w] = IF w = {} THEN base
                    ELSE IF isShown(s[Max(w)])
                         THEN Append(iter[w \ {Max(w)}], a2aMessageToChatMessage(s[Max(w)]))
                         ELSE iter[w \ {Max(w)}]
      <4> HIDE DEF w
      <4>1. w \in SUBSET (1 .. n)
        BY <2>1 DEF w
      <4> QED BY Zenon, <1>3, <4>1
    <3>2. w # {} /\ Max(w) = k /\ w \ {Max(w)} = 1 .. (k - 1)
      BY <2>1
    <3> QED BY <3>1, <3>2
  <2>3. iter[1 .. (k - 1)] \in Openings /\ k \in 0 .. n
    BY <1>1, <1>6
  <2> QED BY <2>2, <2>3, OpeningGrows
<1> HIDE DEF Good
<1>7. 0 .. n \subseteq Good
  BY <1>1, <1>5, <1>6, InductionUpTo
<1>8. n \in Good
  BY <1>1, <1>7
<1> QED BY <1>4, <1>8 DEF Good

(* The statistics of a conversation some of whose calls are still owed.    *)
Tally(chat, begun, owed) ==
  [iterations  |-> begun,
   toolCalls   |-> Cardinality(ToolAnswers(chat)) + owed,
   failedTools |-> Cardinality(FailedAnswers(chat))]

LEMMA TallyCounts ==
  ASSUME NEW chat \in Seq(Messages), NEW begun \in Nat, NEW owed \in Nat
  PROVE  /\ incrementIteration(Tally(chat, begun, owed)) = Tally(chat, begun + 1, owed)
         /\ \A n \in Nat : incrementToolCalls(Tally(chat, begun, owed), n) = Tally(chat, begun, owed + n)
         /\ \A names \in Seq(CalledNames) :
              Tally(Append(chat, Assistant(names)), begun, owed) = Tally(chat, begun, owed)
<1>1. <<>> \in Seq(Messages)
  OBVIOUS
<1>2. Cardinality(ToolAnswers(chat)) \in Nat /\ Cardinality(FailedAnswers(chat)) \in Nat
  BY <1>1, AnswersAdd
<1>3. incrementIteration(Tally(chat, begun, owed)) = Tally(chat, begun + 1, owed)
  BY DEF incrementIteration, Tally
<1>4. \A n \in Nat : incrementToolCalls(Tally(chat, begun, owed), n) = Tally(chat, begun, owed + n)
  <2>1. \A n \in Nat : (Cardinality(ToolAnswers(chat)) + owed) + n = Cardinality(ToolAnswers(chat)) + (owed + n)
    BY <1>2
  <2> QED BY <2>1 DEF incrementToolCalls, Tally
<1>5. ASSUME NEW names \in Seq(CalledNames)
      PROVE  Tally(Append(chat, Assistant(names)), begun, owed) = Tally(chat, begun, owed)
  BY AskingAddsNone DEF Tally
<1> QED BY <1>3, <1>4, <1>5

(* Answers to the calls after the k-th, in their order.                    *)
AnswersAfter(k, more) ==
  /\ more \in Seq(Messages)
  /\ \A i \in 1 .. Len(more) : more[i].role = "tool" /\ more[i].call[2] = k + i

(* Some answers come in.                                                   *)
LEMMA AnswersCome ==
  ASSUME NEW chat, Prompted(chat), NEW names \in Seq(CalledNames), NEW k \in Nat,
         Owes(chat, names, k),
         NEW more, AnswersAfter(k, more), k + Len(more) <= Len(names),
         NEW begun \in Nat
  PROVE  /\ Prompted(chat \o more) /\ Owes(chat \o more, names, k + Len(more))
         /\ incrementFailedTools(Tally(chat, begun, Len(names) - k), Cardinality(FailedAnswers(more)))
              = Tally(chat \o more, begun, Len(names) - (k + Len(more)))
<1> DEFINE m == Len(more)
           failed == Cardinality(FailedAnswers(more))
<1>0. /\ more \in Seq(Messages)
      /\ \A i \in 1 .. Len(more) : more[i].role = "tool" /\ more[i].call[2] = k + i
  BY DEF AnswersAfter
<1>1. m \in Nat /\ DOMAIN more = 1 .. m /\ Len(names) \in Nat
  BY <1>0
<1>2. chat \in Seq(Messages)
  BY DEF Prompted
<1>3. Prompted(chat \o more)
  <2>1. more # <<>> => 1 \in 1 .. Len(more)
    BY <1>0
  <2>2. more # <<>> => more[1].role # "system"
    BY <1>0, <2>1
  <2> QED BY <1>0, <2>2, StaysPrompted
<1>4. Owes(chat \o more, names, k + Len(more))
  BY <1>0, AnswersAreTaken
<1>5. ToolAnswers(more) = 1 .. m
  BY <1>0, <1>1 DEF ToolAnswers
<1> HIDE DEF m
<1>6. Cardinality(ToolAnswers(more)) = m
  BY <1>1, <1>5, FS_Interval
<1>7. /\ Cardinality(ToolAnswers(chat)) \in Nat /\ Cardinality(FailedAnswers(chat)) \in Nat
      /\ Cardinality(ToolAnswers(chat \o more)) = Cardinality(ToolAnswers(chat)) + m
      /\ Cardinality(FailedAnswers(chat \o more)) = Cardinality(FailedAnswers(chat)) + failed
  BY <1>0, <1>2, <1>6, AnswersAdd
<1>8. Cardinality(ToolAnswers(chat)) + (Len(names) - k)
        = Cardinality(ToolAnswers(chat \o more)) + (Len(names) - (k + m))
  BY <1>1, <1>7
<1>9. incrementFailedTools(Tally(chat, begun, Len(names) - k), failed)
        = Tally(chat \o more, begun, Len(names) - (k + m))
  BY <1>7, <1>8 DEF incrementFailedTools, Tally
<1> QED BY <1>3, <1>4, <1>9 DEF m

(* All calls are answered as failed, without a toolbox.                    *)
Refusals(names) == [i \in DOMAIN names |-> ToolAnswer(Call(i), FALSE)]

LEMMA RefusedCalls ==
  ASSUME NEW chat, Prompted(chat), Closed(chat), NEW names \in Seq(CalledNames), names # <<>>,
         NEW begun \in Nat, iteration \in Nat
  PROVE  LET after == Append(chat, Assistant(names)) \o Refusals(names)
         IN  /\ Prompted(after) /\ Closed(after)
             /\ incrementFailedTools(incrementToolCalls(Tally(chat, begun, 0), Len(names)), Len(names))
                  = Tally(after, begun, 0)
<1> DEFINE more == Refusals(names)
           asked == Append(chat, Assistant(names))
           after == asked \o more
           m == Len(names)
<1>0. more = [i \in DOMAIN names |-> ToolAnswer(Call(i), FALSE)]
  BY DEF Refusals
<1> HIDE DEF more
<1>1. chat \in Seq(Messages) /\ m \in Nat /\ DOMAIN names = 1 .. m
  BY DEF Closed
<1>2. asked \in Seq(Messages) /\ Owes(asked, names, 0)
  BY CallsAreOwed
<1>3. Prompted(asked)
  <2>1. Assistant(names) \in Messages /\ Assistant(names).role = "assistant"
    BY MessageRoles
  <2>2. /\ asked = chat \o <<Assistant(names)>> /\ <<Assistant(names)>> \in Seq(Messages)
        /\ <<Assistant(names)>>[1] = Assistant(names)
    BY <1>1, <2>1, AppendIsConcat
  <2> HIDE DEF asked
  <2> QED BY <2>1, <2>2, StaysPrompted
<1>4. \A i \in 1 .. m : Call(i) \in Nat \X Nat /\ Call(i)[2] = i
  BY <1>1 DEF Call
<1>5. /\ more \in Seq(Messages) /\ Len(more) = m /\ DOMAIN more = 1 .. m
      /\ \A i \in 1 .. m : more[i].role = "tool" /\ more[i].call[2] = i /\ more[i].ok = FALSE
  <2>1. ASSUME NEW i \in 1 .. m
        PROVE  /\ ToolAnswer(Call(i), FALSE) \in Messages
               /\ ToolAnswer(Call(i), FALSE).role = "tool"
               /\ ToolAnswer(Call(i), FALSE).call[2] = i
               /\ ToolAnswer(Call(i), FALSE).ok = FALSE
    BY <1>4, MessageRoles
  <2> HIDE DEF m
  <2>2. \A i \in 1 .. m : more[i] = ToolAnswer(Call(i), FALSE)
    BY <1>0, <1>1
  <2>3. more \in [1 .. m -> Messages]
    BY <1>0, <1>1, <2>1
  <2>4. more \in Seq(Messages) /\ Len(more) = m /\ DOMAIN more = 1 .. m
    BY <1>1, <2>3, SequenceOf
  <2>5. ASSUME NEW i \in 1 .. m
        PROVE  more[i].role = "tool" /\ more[i].call[2] = i /\ more[i].ok = FALSE
    <3> DEFINE refusal == ToolAnswer(Call(i), FALSE)
    <3>1. refusal.role = "tool" /\ refusal.call[2] = i /\ refusal.ok = FALSE
      BY <2>1
    <3>2. more[i] = refusal
      BY <2>2
    <3> HIDE DEF refusal
    <3> QED BY <3>1, <3>2
  <2> QED BY <2>4, <2>5
<1>6. Cardinality(FailedAnswers(more)) = m
  <2>1. FailedAnswers(more) = 1 .. m
    BY <1>5 DEF FailedAnswers, ToolAnswers
  <2> HIDE DEF m
  <2> QED BY <1>1, <2>1, FS_Interval
<1>7. incrementToolCalls(Tally(chat, begun, 0), m) = Tally(asked, begun, m - 0)
  <2>1. 0 + m = m /\ m - 0 = m
    BY <1>1
  <2>2. incrementToolCalls(Tally(chat, begun, 0), m) = Tally(chat, begun, m)
    BY <1>1, <2>1, TallyCounts
  <2> QED BY <1>1, <2>1, <2>2, TallyCounts
<1> HIDE DEF asked, after
<1>8. /\ Prompted(after) /\ Owes(after, names, 0 + Len(more))
      /\ incrementFailedTools(Tally(asked, begun, Len(names) - 0), m)
           = Tally(after, begun, Len(names) - (0 + Len(more)))
  <2>1. after = asked \o more
    BY DEF after
  <2>2. 0 + Len(more) <= Len(names)
    BY <1>1, <1>5
  <2>3. AnswersAfter(0, more)
    <3>1. \A i \in 1 .. m : 0 + i = i
      OBVIOUS
    <3> HIDE DEF m
    <3> QED BY <1>5, <3>1 DEF AnswersAfter
  <2>4. /\ Prompted(asked \o more) /\ Owes(asked \o more, names, 0 + Len(more))
        /\ incrementFailedTools(Tally(asked, begun, Len(names) - 0), Cardinality(FailedAnswers(more)))
             = Tally(asked \o more, begun, Len(names) - (0 + Len(more)))
    <3> HIDE DEF m
    <3> QED BY <1>2, <1>3, <2>2, <2>3, AnswersCome
  <2> QED BY <1>6, <2>1, <2>4
<1>9. 0 + Len(more) = Len(names) /\ Len(names) - (0 + Len(more)) = 0
  BY <1>1, <1>5
<1> QED BY <1>7, <1>8, <1>9, BatchCloses DEF after, asked, more

(* The background handler takes the results of a batch at once.            *)
LEMMA BatchAnswered ==
  ASSUME Prompted(conversation), calls \in Seq(CalledNames), calls # <<>>,
         Owes(conversation, calls, 0), iteration \in Nat,
         dispatch \in Seq(Dispatched), Len(dispatch) = Len(calls),
         \A i \in DOMAIN dispatch : dispatch[i] \in {"ok", "failed"}, NEW begun \in Nat
  PROVE  /\ Prompted(conversation \o Results) /\ Closed(conversation \o Results)
         /\ incrementFailedTools(Tally(conversation, begun, Len(calls)), Failures)
              = Tally(conversation \o Results, begun, 0)
<1> DEFINE m == Len(calls)
           more == Results
<1>1. m \in Nat /\ DOMAIN calls = 1 .. m /\ DOMAIN dispatch = 1 .. m
  OBVIOUS
<1>2. ASSUME NEW i \in 1 .. m, NEW ok \in BOOLEAN
      PROVE  /\ ToolAnswer(Call(i), ok) \in Messages /\ ToolAnswer(Call(i), ok).role = "tool"
             /\ ToolAnswer(Call(i), ok).call[2] = i /\ ToolAnswer(Call(i), ok).ok = ok
  <2>1. Call(i) \in Nat \X Nat /\ Call(i)[2] = i
    BY <1>1 DEF Call
  <2> QED BY <2>1, MessageRoles
<1>3. more = [i \in 1 .. m |-> ToolAnswer(Call(i), dispatch[i] = "ok")]
  BY <1>1 DEF Results
<1> HIDE DEF more, m
<1>4. /\ more \in Seq(Messages) /\ Len(more) = m /\ DOMAIN more = 1 .. m
      /\ \A i \in 1 .. m : /\ more[i].role = "tool" /\ more[i].call[2] = i
                           /\ more[i].ok = (dispatch[i] = "ok")
  <2>1. \A i \in 1 .. m : more[i] = ToolAnswer(Call(i), dispatch[i] = "ok")
    BY <1>3
  <2>3. ASSUME NEW i \in 1 .. m
        PROVE  /\ more[i] \in Messages /\ more[i].role = "tool" /\ more[i].call[2] = i
               /\ more[i].ok = (dispatch[i] = "ok")
    <3> DEFINE ok == dispatch[i] = "ok"
    <3>1. ok \in BOOLEAN /\ more[i] = ToolAnswer(Call(i), ok)
      BY <2>1
    <3> HIDE DEF ok
    <3>2. /\ ToolAnswer(Call(i), ok) \in Messages /\ ToolAnswer(Call(i), ok).role = "tool"
          /\ ToolAnswer(Call(i), ok).call[2] = i /\ ToolAnswer(Call(i), ok).ok = ok
      BY Zenon, <1>2, <3>1
    <3>3. /\ more[i] \in Messages /\ more[i].role = "tool" /\ more[i].call[2] = i
          /\ more[i].ok = ok
      BY <3>1, <3>2
    <3> QED BY <3>3 DEF ok
  <2>4. more \in [1 .. m -> Messages]
    BY <1>3, <2>3
  <2> QED BY <1>1, <2>3, <2>4, SequenceOf
<1>5. Failures = Cardinality(FailedAnswers(more))
  <2>1. ToolAnswers(more) = 1 .. m
    BY <1>4 DEF ToolAnswers
  <2>2. \A i \in 1 .. m : ~more[i].ok <=> dispatch[i] = "failed"
    BY <1>1, <1>4
  <2>3. FailedAnswers(more) = {i \in DOMAIN dispatch : dispatch[i] = "failed"}
    BY <1>1, <2>1, <2>2 DEF FailedAnswers
  <2> QED BY <2>3 DEF Failures
<1>6. AnswersAfter(0, more) /\ 0 + Len(more) <= Len(calls) /\ 0 + Len(more) = Len(calls)
      /\ Len(calls) - 0 = Len(calls) /\ Len(calls) - (0 + Len(more)) = 0
  <2>1. \A i \in 1 .. m : 0 + i = i
    BY <1>1
  <2> QED BY <1>1, <1>4, <2>1 DEF AnswersAfter, m
<1>7. /\ Prompted(conversation \o more) /\ Owes(conversation \o more, calls, 0 + Len(more))
      /\ incrementFailedTools(Tally(conversation, begun, Len(calls) - 0), Cardinality(FailedAnswers(more)))
           = Tally(conversation \o more, begun, Len(calls) - (0 + Len(more)))
  BY <1>6, AnswersCome
<1> QED BY <1>5, <1>6, <1>7, BatchCloses DEF more

(* The streaming handler takes the result it awaited.                      *)
LEMMA ResultAnswered ==
  ASSUME Prompted(conversation), calls \in Seq(CalledNames), NEW k \in Nat, k + 1 <= Len(calls),
         Owes(conversation, calls, k), iteration \in Nat, NEW ok \in BOOLEAN, NEW begun \in Nat,
         NEW after, after = Append(conversation, ToolAnswer(Call(k + 1), ok))
  PROVE  /\ Prompted(after) /\ Owes(after, calls, k + 1)
         /\ incrementFailedTools(Tally(conversation, begun, Len(calls) - k), IF ok THEN 0 ELSE 1)
              = Tally(after, begun, Len(calls) - (k + 1))
<1> DEFINE x == ToolAnswer(Call(k + 1), ok)
           more == <<x>>
<1>1. x \in Messages /\ x.role = "tool" /\ x.call[2] = k + 1 /\ x.ok = ok
  <2>1. Call(k + 1) \in Nat \X Nat /\ Call(k + 1)[2] = k + 1
    BY DEF Call
  <2> QED BY <2>1, MessageRoles
<1>2. conversation \in Seq(Messages)
  BY DEF Prompted
<1> HIDE DEF x
<1>3. more \in Seq(Messages) /\ Len(more) = 1 /\ DOMAIN more = {1} /\ more[1] = x
  BY <1>1
<1>4. after = conversation \o more
  <2>1. after = Append(conversation, x)
    BY DEF x
  <2> QED BY <1>1, <1>2, <2>1, AppendIsConcat
<1> HIDE DEF more
<1>5. AnswersAfter(k, more)
  BY <1>1, <1>3 DEF AnswersAfter
<1>6. Cardinality(FailedAnswers(more)) = IF ok THEN 0 ELSE 1
  <2>1. FailedAnswers(more) = IF ok THEN {} ELSE {1}
    BY <1>1, <1>3 DEF FailedAnswers, ToolAnswers
  <2> QED BY <2>1, FS_EmptySet, FS_Singleton
<1>7. /\ Prompted(conversation \o more) /\ Owes(conversation \o more, calls, k + Len(more))
      /\ incrementFailedTools(Tally(conversation, begun, Len(calls) - k), Cardinality(FailedAnswers(more)))
           = Tally(conversation \o more, begun, Len(calls) - (k + Len(more)))
  <2>1. k + Len(more) <= Len(calls)
    BY <1>3
  <2> QED BY <1>5, <2>1, AnswersCome
<1> QED BY <1>3, <1>4, <1>6, <1>7

-----------------------------------------------------------------------------
Looping == {"start", "beforeAgent", "iterate", "beforeModel", "model"}
Batching == {"dispatch", "tools", "awaiting"}

(* Between batches nothing is owed; during one the calls of the last answer*)
(* are, but for those answered already; the statistics count every call    *)
(* from the moment it is taken up.                                         *)
ConversationInvariant ==
  /\ Prompted(conversation)
  /\ Background => awaited = 0
  /\ pc \in {"start", "beforeAgent"} => iteration = 0
  /\ pc \in Looping => Closed(conversation) /\ tracker = Tally(conversation, iteration, 0)
  /\ pc \in Batching =>
       /\ calls # <<>> /\ answered \in 0 .. Len(calls)
       /\ Owes(conversation, calls, answered)
       /\ tracker = Tally(conversation, iteration, Len(calls) - answered)
  /\ pc \in {"tools", "awaiting"} => Len(dispatch) = Len(calls)
  /\ pc = "awaiting" => answered < Len(calls)

(* The model is only called on a sound conversation.                       *)
LEMMA SoundWhenClosed == TypeInvariant /\ ConversationInvariant => ConversationSound
<1> SUFFICES ASSUME TypeInvariant, ConversationInvariant, pc \in {"beforeModel", "model"}
             PROVE  ConversationSound
  BY DEF ConversationSound
<1>1. Prompted(conversation) /\ Closed(conversation) /\ tracker = Tally(conversation, iteration, 0)
  BY DEF ConversationInvariant, Looping
<1>2. Cardinality(ToolAnswers(conversation))
        = Cardinality(UNION {{p} \X DOMAIN conversation[p].calls : p \in Asking(conversation)})
  BY <1>1, OneAnswerPerCall
<1>3. Cardinality(ToolAnswers(conversation)) + 0 = Cardinality(ToolAnswers(conversation))
  <2>1. conversation \in Seq(Messages) /\ <<>> \in Seq(Messages)
    BY <1>1 DEF Closed
  <2>2. Cardinality(ToolAnswers(conversation)) \in Nat
    BY <2>1, AnswersAdd
  <2> QED BY <2>2
<1>4. tracker = [iterations  |-> iteration,
                 toolCalls   |-> Cardinality(UNION {{p} \X DOMAIN conversation[p].calls :
                                                       p \in Asking(conversation)}),
                 failedTools |-> Cardinality(FailedAnswers(conversation))]
  BY <1>1, <1>2, <1>3 DEF Tally
<1>5. \A p \in Asking(conversation) : AnsweredAt(conversation, p)
  BY <1>1 DEF Closed
<1> QED BY <1>1, <1>2, <1>4, <1>5, Truncated DEF ConversationSound

LEMMA AskingStaysPrompted ==
  ASSUME NEW chat, Prompted(chat), NEW names \in Seq(CalledNames)
  PROVE  Prompted(Append(chat, Assistant(names)))
<1> DEFINE x == Assistant(names)
<1>1. x \in Messages /\ x.role = "assistant" /\ chat \in Seq(Messages)
  BY MessageRoles DEF Prompted
<1> HIDE DEF x
<1>2. Append(chat, x) = chat \o <<x>> /\ <<x>> \in Seq(Messages) /\ <<x>>[1] = x
  BY <1>1, AppendIsConcat
<1>3. Prompted(chat \o <<x>>)
  BY <1>1, <1>2, StaysPrompted
<1> QED BY <1>2, <1>3 DEF x

LEMMA ToolStepKeepsLength ==
  ASSUME ToolStep, dispatch \in Seq(Dispatched)
  PROVE  Len(dispatch') = Len(dispatch)
<1>1. PICK i \in DOMAIN dispatch : RunTool(i) \/ AfterTool(i)
  BY DEF ToolStep
<1>2. \E result : dispatch' = [dispatch EXCEPT ![i] = result]
  BY <1>1 DEF RunTool, AfterTool, createArtifact
<1> QED BY <1>2

(* Steps that leave the conversation alone.                                *)
LEMMA ConversationRests ==
  ASSUME ConversationInvariant, UNCHANGED <<handler, conversation>>,
         Background => UNCHANGED awaited,
         \/ pc' \notin Looping \cup Batching
         \/ /\ UNCHANGED <<calls, iteration, tracker, awaited>>
            /\ \/ pc' = pc /\ Len(dispatch') = Len(dispatch)
               \/ pc \in Looping /\ pc' \in {"iterate", "beforeModel", "model"}
               \/ pc = "start" /\ pc' = "beforeAgent"
  PROVE  ConversationInvariant'
<1>1. CASE pc' \notin Looping \cup Batching
  BY <1>1 DEF ConversationInvariant, Background, Looping, Batching
<1>2. CASE /\ UNCHANGED <<calls, iteration, tracker, awaited>>
           /\ pc' = pc /\ Len(dispatch') = Len(dispatch)
  <2>1. answered' = answered
    BY <1>2 DEF answered
  <2> QED BY <1>2, <2>1 DEF ConversationInvariant, Background
<1>3. CASE /\ UNCHANGED <<calls, iteration, tracker, awaited>>
           /\ \/ pc \in Looping /\ pc' \in {"iterate", "beforeModel", "model"}
              \/ pc = "start" /\ pc' = "beforeAgent"
  BY <1>3 DEF ConversationInvariant, Background, Looping, Batching
<1> QED BY <1>1, <1>2, <1>3

(* A run that ends, or a last answer.                                      *)
LEMMA ConversationEnds ==
  ASSUME ConversationInvariant, UNCHANGED handler, Background => UNCHANGED awaited,
         pc' \notin Looping \cup Batching,
         NEW names \in Seq(CalledNames),
         conversation' = conversation \/ conversation' = Append(conversation, Assistant(names))
  PROVE  ConversationInvariant'
<1>1. Prompted(Append(conversation, Assistant(names)))
  BY AskingStaysPrompted DEF ConversationInvariant
<1>2. Prompted(conversation')
  BY <1>1 DEF ConversationInvariant
<1> QED BY <1>2 DEF ConversationInvariant, Background, Looping, Batching

(* The head of the loop goes on with a closed conversation.                *)
LEMMA LoopHeadGoesOn ==
  ASSUME NEW chat, Prompted(chat), Closed(chat), conversation' = chat, iteration \in Nat,
         NEW t, t = Tally(chat, iteration, 0), LoopHead(iteration, t),
         awaited' = 0
  PROVE  ConversationInvariant'
<1>1. CASE pc' = "done"
  BY <1>1 DEF ConversationInvariant, Looping, Batching
<1>2. CASE pc' # "done"
  <2>1. /\ pc' = "beforeModel" /\ iteration' = iteration + 1 /\ tracker' = incrementIteration(t)
    BY <1>2 DEF LoopHead, finalizeFailed, finalizeCancelled, Finish
  <2>2. chat \in Seq(Messages)
    BY DEF Closed
  <2>3. tracker' = Tally(chat, iteration + 1, 0)
    BY <2>1, <2>2, TallyCounts
  <2> QED BY <2>1, <2>3 DEF ConversationInvariant, Looping, Batching
<1> QED BY <1>1, <1>2

(* A batch is taken up.                                                    *)
LEMMA BatchTakenUp ==
  ASSUME ConversationInvariant, pc \in Looping, iteration \in Nat,
         NEW names \in Seq(CalledNames), names # <<>>,
         conversation' = Append(conversation, Assistant(names)), calls' = names,
         UNCHANGED iteration, tracker' = incrementToolCalls(tracker, Len(names)),
         awaited' = 0,
         pc' = "dispatch" \/ (pc' = "tools" /\ Len(dispatch') = Len(names))
  PROVE  ConversationInvariant'
<1>1. /\ Prompted(conversation) /\ Closed(conversation)
      /\ tracker = Tally(conversation, iteration, 0) /\ conversation \in Seq(Messages)
  BY DEF ConversationInvariant, Closed
<1>2. Prompted(conversation') /\ Owes(conversation', names, 0)
  BY <1>1, AskingStaysPrompted, CallsAreOwed
<1>3. Len(names) \in Nat /\ 0 + Len(names) = Len(names) /\ Len(names) - 0 = Len(names)
  OBVIOUS
<1>4. tracker' = Tally(conversation, iteration, Len(names))
  BY <1>1, <1>3, TallyCounts
<1>5. tracker' = Tally(conversation', iteration, Len(names))
  BY <1>1, <1>3, <1>4, TallyCounts
<1>6. answered' = 0
  BY DEF answered
<1> QED BY <1>2, <1>3, <1>5, <1>6 DEF ConversationInvariant, Looping, Batching

LEMMA BackgroundKeepsConversation ==
  ASSUME TypeInvariant, ConversationInvariant, BackgroundNext, UNCHANGED streamingVars
  PROVE  ConversationInvariant'
<1>1. /\ awaited' = awaited /\ (Background => awaited = 0)
      /\ iteration \in Nat /\ calls \in Seq(CalledNames)
      /\ dispatch \in Seq(Dispatched) /\ <<>> \in Seq(CalledNames)
  BY AgentConstants DEF streamingVars, ConversationInvariant, TypeInvariant, AgentConstants
<1>2. "done" \notin Looping \cup Batching /\ "afterAgent" \notin Looping \cup Batching
  BY DEF Looping, Batching
<1>3. /\ Catch => pc' = "done"
      /\ finalizeWithMessage(Drained) => pc' = "done"
      /\ finalizeInputRequired(Drained) => pc' = "done"
      /\ finalizeCancelled(Drained) => pc' = "done"
  BY DEF Catch, finalizeFailed, finalizeCancelled, finalizeWithMessage, finalizeInputRequired, Finish
<1>4. CASE StartBackground
  <2>1. /\ UNCHANGED <<handler, conversation, calls, iteration, tracker>>
        /\ pc = "start" /\ pc' \in {"done", "beforeAgent"}
    BY <1>4 DEF StartBackground
  <2> QED BY <1>1, <1>2, <2>1, ConversationRests
<1>5. CASE BeforeAgent
  <2>1. UNCHANGED <<handler, conversation>> /\ pc = "beforeAgent" /\ Background
    BY <1>5 DEF BeforeAgent
  <2>2. CASE LoopHead(0, tracker)
    <3>1. iteration = 0 /\ Prompted(conversation) /\ Closed(conversation)
          /\ tracker = Tally(conversation, iteration, 0)
      BY <2>1 DEF ConversationInvariant, Looping
    <3> QED BY <1>1, <2>1, <2>2, <3>1, LoopHeadGoesOn
  <2>3. CASE pc' = "done"
    BY <1>1, <1>2, <2>1, <2>3, ConversationRests
  <2> QED BY <1>3, <1>5, <2>2, <2>3 DEF BeforeAgent
<1>6. CASE CallModel
  <2>1. /\ UNCHANGED <<handler, conversation, calls, iteration, tracker>>
        /\ pc = "beforeModel" /\ pc' = "model"
    BY <1>6 DEF CallModel
  <2> QED BY <1>1, <2>1, ConversationRests DEF Looping
<1>7. CASE ModelFails \/ AfterAgent \/ BatchRejected
  <2>1. UNCHANGED <<handler, conversation>> /\ pc' = "done"
    BY <1>3, <1>7 DEF ModelFails, AfterAgent, BatchRejected
  <2> QED BY <1>1, <1>2, <2>1, ConversationRests
<1>8. CASE AnswersFinally
  <2>1. /\ UNCHANGED handler /\ conversation' = Append(conversation, Assistant(<<>>))
        /\ pc' = "afterAgent"
    BY <1>8 DEF AnswersFinally, Answering
  <2> QED BY <1>1, <1>2, <2>1, ConversationEnds
<1>9. ASSUME NEW names \in Completions, AsksForInput(names) PROVE ConversationInvariant'
  <2>1. /\ UNCHANGED handler /\ conversation' = Append(conversation, Assistant(names))
        /\ pc' = "done" /\ names \in Seq(CalledNames)
    BY <1>3, <1>9, CompletionsAre DEF AsksForInput, Answering
  <2> QED BY <1>1, <1>2, <2>1, ConversationEnds
<1>10. ASSUME NEW names \in Completions, AnswersWithoutTools(names) PROVE ConversationInvariant'
  <2> DEFINE after == Append(conversation, Assistant(names)) \o Refusals(names)
             t == incrementFailedTools(incrementToolCalls(tracker, Len(names)), Len(names))
  <2>1. /\ names \in Seq(CalledNames) /\ names # <<>> /\ pc \in {"beforeModel", "model"} /\ Background
        /\ conversation' = after /\ LoopHead(iteration, t)
    BY <1>10, CompletionsAre DEF AnswersWithoutTools, Refusals
  <2>2. /\ Prompted(conversation) /\ Closed(conversation)
        /\ tracker = Tally(conversation, iteration, 0)
    BY <2>1 DEF ConversationInvariant, Looping
  <2>3. Prompted(after) /\ Closed(after) /\ t = Tally(after, iteration, 0)
    BY <1>1, <2>1, <2>2, RefusedCalls
  <2> HIDE DEF after, t
  <2> QED BY <1>1, <2>1, <2>3, LoopHeadGoesOn
<1>11. ASSUME NEW names \in Completions, DispatchTools(names) PROVE ConversationInvariant'
  <2>1. /\ names \in Seq(CalledNames) /\ names # <<>> /\ pc \in Looping /\ Background
        /\ conversation' = Append(conversation, Assistant(names)) /\ calls' = names
        /\ UNCHANGED iteration /\ tracker' = incrementToolCalls(tracker, Len(names))
        /\ pc' = "tools" /\ dispatch' = [i \in DOMAIN names |-> "running"]
    BY <1>11, CompletionsAre DEF DispatchTools, Answering, Looping
  <2>2. Len(dispatch') = Len(names)
    BY <2>1
  <2> QED BY <1>1, <2>1, <2>2, BatchTakenUp
<1>12. CASE BatchEnds
  <2>1. /\ Background /\ pc = "tools" /\ UNCHANGED handler
        /\ \A i \in DOMAIN dispatch : dispatch[i] \in {"ok", "failed"}
    BY <1>12 DEF BatchEnds
  <2>2. CASE signal
    <3>1. UNCHANGED conversation /\ pc' = "done"
      BY <1>3, <1>12, <2>2 DEF BatchEnds
    <3> QED BY <1>1, <1>2, <2>1, <3>1, ConversationRests
  <2>3. CASE ~signal
    <3> DEFINE t == incrementFailedTools(tracker, Failures)
    <3>1. conversation' = conversation \o Results /\ LoopHead(iteration, t)
      BY <1>12, <2>3 DEF BatchEnds
    <3>2. /\ answered = 0 /\ Len(calls) \in Nat /\ Len(calls) - 0 = Len(calls)
          /\ Prompted(conversation) /\ calls # <<>> /\ Owes(conversation, calls, 0)
          /\ tracker = Tally(conversation, iteration, Len(calls)) /\ Len(dispatch) = Len(calls)
      BY <1>1, <2>1 DEF ConversationInvariant, Batching, answered
    <3>3. /\ Prompted(conversation \o Results) /\ Closed(conversation \o Results)
          /\ t = Tally(conversation \o Results, iteration, 0)
      BY <1>1, <2>1, <3>2, BatchAnswered
    <3> HIDE DEF t
    <3> QED BY <1>1, <2>1, <3>1, <3>3, LoopHeadGoesOn
  <2> QED BY <2>2, <2>3
<1>13. CASE ToolStep
  <2>1. UNCHANGED <<handler, conversation, calls, iteration, tracker, pc>>
    BY <1>13 DEF ToolStep
  <2>2. Len(dispatch') = Len(dispatch)
    BY <1>1, <1>13, ToolStepKeepsLength
  <2> QED BY <1>1, <2>1, <2>2, ConversationRests
<1> QED BY <1>4, <1>5, <1>6, <1>7, <1>8, <1>9, <1>10, <1>11, <1>12, <1>13
        DEF BackgroundNext, ModelAnswers

LEMMA StreamingKeepsConversation ==
  ASSUME TypeInvariant, StreamTypes, ConversationInvariant, StreamingNext
  PROVE  ConversationInvariant'
<1>1. /\ handler' = handler /\ ~Background /\ ~Background'
      /\ iteration \in Nat /\ calls \in Seq(CalledNames)
      /\ dispatch \in Seq(Dispatched) /\ <<>> \in Seq(CalledNames)
  BY StreamingStaysStreaming, AgentConstants DEF TypeInvariant, AgentConstants, Streaming, Background
<1>2. {"done", "afterAgent", "return"} \cap (Looping \cup Batching) = {}
  BY DEF Looping, Batching
<1>3. CASE Pull
  <2>1. UNCHANGED <<conversation, calls, iteration, tracker, awaited, dispatch>> /\ pc' \in {"done", pc}
    BY <1>3 DEF Pull, Ends, dispatchVars
  <2> QED BY <1>1, <1>2, <2>1, ConversationRests
<1>4. CASE StartStreaming
  <2>1. /\ UNCHANGED <<conversation, calls, iteration, tracker, awaited>>
        /\ pc = "start" /\ pc' \in {"done", "beforeAgent"}
    BY <1>4 DEF StartStreaming, At, Ends, Yields
  <2> QED BY <1>1, <1>2, <2>1, ConversationRests
<1>5. CASE CallbackThrows \/ StreamModelFails \/ StreamAfterAgent \/ StreamReturnsAtLast
           \/ CloseGenerator \/ UnhandledRejection
  <2>1. UNCHANGED conversation /\ pc' \in {"done", "return"}
    BY <1>5 DEF CallbackThrows, StreamModelFails, StreamAfterAgent, StreamReturnsAtLast,
                CloseGenerator, UnhandledRejection, Ends, Yields
  <2> QED BY <1>1, <1>2, <2>1, ConversationRests
<1>6. CASE StreamBeforeAgent
  <2>1. /\ UNCHANGED <<conversation, calls, iteration, tracker, awaited>>
        /\ pc = "beforeAgent" /\ pc' \in {"return", "iterate"}
    BY <1>6 DEF StreamBeforeAgent, At, Yields
  <2> QED BY <1>1, <1>2, <2>1, ConversationRests DEF Looping
<1>7. CASE Iterate
  <2>1. UNCHANGED conversation /\ pc = "iterate"
        /\ \/ pc' \in {"return", "done"}
           \/ pc' = "beforeModel" /\ iteration' = iteration + 1 /\ tracker' = incrementIteration(tracker)
    BY <1>7 DEF Iterate, At, Ends, Yields
  <2>2. CASE pc' \in {"return", "done"}
    BY <1>1, <1>2, <2>1, <2>2, ConversationRests
  <2>3. CASE pc' = "beforeModel"
    <3>1. /\ iteration' = iteration + 1 /\ tracker' = incrementIteration(tracker)
          /\ Prompted(conversation) /\ Closed(conversation) /\ conversation \in Seq(Messages)
          /\ tracker = Tally(conversation, iteration, 0)
      BY <2>1, <2>3 DEF ConversationInvariant, Looping, Closed
    <3>2. tracker' = Tally(conversation, iteration + 1, 0)
      BY <1>1, <3>1, TallyCounts
    <3> QED BY <1>1, <2>1, <2>3, <3>1, <3>2 DEF ConversationInvariant, Looping, Batching
  <2> QED BY <2>1, <2>2, <2>3
<1>8. CASE StreamCallsModel
  <2>1. /\ UNCHANGED <<conversation, calls, iteration, tracker, awaited>>
        /\ pc = "beforeModel" /\ pc' = "model"
    BY <1>8 DEF StreamCallsModel, At, Yields
  <2> QED BY <1>1, <2>1, ConversationRests DEF Looping
<1>9. CASE StreamAnswersFinally
  <2>1. conversation' = Append(conversation, Assistant(<<>>)) /\ pc' = "afterAgent"
    BY <1>9 DEF StreamAnswersFinally, StreamAnswering, Yields
  <2> QED BY <1>1, <1>2, <2>1, ConversationEnds
<1>10. ASSUME NEW names \in Completions, StreamAsksForInput(names) PROVE ConversationInvariant'
  <2>1. /\ conversation' = Append(conversation, Assistant(names))
        /\ pc' = "return" /\ names \in Seq(CalledNames)
    BY <1>10, CompletionsAre DEF StreamAsksForInput, StreamAnswering, Yields
  <2> QED BY <1>1, <1>2, <2>1, ConversationEnds
<1>11. ASSUME NEW names \in Completions, StreamAnswersWithoutTools(names) PROVE ConversationInvariant'
  <2> DEFINE after == Append(conversation, Assistant(names)) \o Refusals(names)
             t == incrementFailedTools(incrementToolCalls(tracker, Len(names)), Len(names))
  <2>1. /\ names \in Seq(CalledNames) /\ names # <<>> /\ pc \in {"beforeModel", "model"}
        /\ conversation' = after /\ tracker' = t /\ UNCHANGED iteration /\ pc' = "iterate"
    BY <1>11, CompletionsAre DEF StreamAnswersWithoutTools, At, Yields, Refusals
  <2>2. /\ Prompted(conversation) /\ Closed(conversation)
        /\ tracker = Tally(conversation, iteration, 0)
    BY <2>1 DEF ConversationInvariant, Looping
  <2>3. Prompted(after) /\ Closed(after) /\ t = Tally(after, iteration, 0)
    BY <1>1, <2>1, <2>2, RefusedCalls
  <2> HIDE DEF after, t
  <2> QED BY <1>1, <2>1, <2>3 DEF ConversationInvariant, Looping, Batching
<1>12. ASSUME NEW names \in Completions, StreamAnnouncesTools(names) PROVE ConversationInvariant'
  <2>1. /\ names \in Seq(CalledNames) /\ names # <<>> /\ pc \in Looping
        /\ conversation' = Append(conversation, Assistant(names)) /\ calls' = names
        /\ UNCHANGED iteration /\ tracker' = incrementToolCalls(tracker, Len(names))
        /\ awaited' = 0 /\ pc' = "dispatch"
    BY <1>12, CompletionsAre DEF StreamAnnouncesTools, StreamAnswering, Looping, At, Yields
  <2> QED BY <1>1, <2>1, BatchTakenUp
<1>13. CASE StreamDispatches
  <2>1. /\ UNCHANGED <<conversation, calls, iteration, tracker, awaited>>
        /\ pc = "dispatch" /\ pc' = "tools" /\ dispatch' = [i \in DOMAIN calls |-> "running"]
    BY <1>13 DEF StreamDispatches, At, Yields
  <2>2. Len(dispatch') = Len(calls)
    BY <1>1, <2>1
  <2>3. answered' = answered
    BY <2>1 DEF answered
  <2> QED BY <1>1, <2>1, <2>2, <2>3 DEF ConversationInvariant, Looping, Batching
<1>14. CASE AwaitTool
  <2>1. /\ UNCHANGED <<conversation, calls, iteration, tracker, dispatch>>
        /\ pc = "tools" /\ awaited < Len(dispatch)
        /\ pc' = "done" \/ (pc' = "awaiting" /\ awaited' = awaited + 1)
    BY <1>14 DEF AwaitTool, At, Ends, Yields, dispatchVars
  <2>2. CASE pc' = "done"
    BY <1>1, <1>2, <2>1, <2>2, ConversationRests
  <2>3. CASE pc' = "awaiting"
    <3>1. answered = awaited /\ awaited \in 0 .. Len(calls) /\ Len(dispatch) = Len(calls)
      BY <2>1 DEF ConversationInvariant, Batching, answered
    <3>2. answered' = answered
      BY <1>1, <2>1, <2>3, <3>1 DEF answered
    <3> QED BY <1>1, <2>1, <2>3, <3>1, <3>2 DEF ConversationInvariant, Looping, Batching
  <2> QED BY <2>1, <2>2, <2>3
<1>15. CASE ToolAnswered
  <2>1. /\ UNCHANGED <<calls, iteration, dispatch, awaited>> /\ pc = "awaiting"
        /\ \/ pc' = "done" /\ UNCHANGED conversation
           \/ /\ pc' = "tools"
              /\ conversation' = Append(conversation, ToolAnswer(Call(awaited), dispatch[awaited] = "ok"))
              /\ tracker' = incrementFailedTools(tracker, IF dispatch[awaited] = "ok" THEN 0 ELSE 1)
    BY <1>15 DEF ToolAnswered, At, Ends, Yields, dispatchVars
  <2>2. CASE pc' = "done"
    BY <1>1, <1>2, <2>1, <2>2, ConversationRests
  <2>3. CASE pc' = "tools"
    <3> DEFINE k == answered
               ok == dispatch[awaited] = "ok"
    <3>1. /\ Prompted(conversation) /\ calls # <<>> /\ k \in 0 .. Len(calls)
          /\ Owes(conversation, calls, k) /\ tracker = Tally(conversation, iteration, Len(calls) - k)
          /\ Len(dispatch) = Len(calls) /\ k < Len(calls)
      BY <2>1 DEF ConversationInvariant, Batching
    <3>2. k = awaited - 1
      BY <2>1 DEF answered
    <3>4. awaited \in Int
      BY DEF StreamTypes
    <3>5. awaited = k + 1 /\ k \in Nat /\ k + 1 <= Len(calls) /\ answered' = k + 1
      BY <1>1, <2>1, <2>3, <3>1, <3>2, <3>4 DEF answered
    <3> HIDE DEF k, ok
    <3>6. /\ conversation' = Append(conversation, ToolAnswer(Call(k + 1), ok))
          /\ tracker' = incrementFailedTools(tracker, IF ok THEN 0 ELSE 1)
          /\ ok \in BOOLEAN
      BY <2>1, <2>3, <3>5 DEF ok
    <3>7. /\ Prompted(conversation') /\ Owes(conversation', calls, k + 1)
          /\ tracker' = Tally(conversation', iteration, Len(calls) - (k + 1))
      BY <1>1, <3>1, <3>5, <3>6, ResultAnswered
    <3>8. k + 1 \in 0 .. Len(calls)
      BY <1>1, <3>5
    <3> QED BY <1>1, <2>1, <2>3, <3>1, <3>5, <3>7, <3>8 DEF ConversationInvariant, Looping, Batching
  <2> QED BY <2>1, <2>2, <2>3
<1>16. CASE StreamBatchEnds
  <2>1. /\ UNCHANGED <<conversation, calls, iteration, tracker, awaited>>
        /\ pc = "tools" /\ awaited = Len(dispatch) /\ pc' = "iterate"
    BY <1>16 DEF StreamBatchEnds, At, Yields
  <2>2. answered = Len(calls) /\ Prompted(conversation) /\ calls # <<>>
        /\ Owes(conversation, calls, Len(calls))
        /\ tracker = Tally(conversation, iteration, Len(calls) - Len(calls))
    BY <2>1 DEF ConversationInvariant, Batching, answered
  <2>3. Len(calls) - Len(calls) = 0
    BY <1>1
  <2>4. Closed(conversation)
    BY <1>1, <2>2, BatchCloses
  <2> QED BY <1>1, <2>1, <2>2, <2>3, <2>4 DEF ConversationInvariant, Looping, Batching
<1>17. CASE ToolStep /\ UNCHANGED streamingVars
  <2>1. UNCHANGED <<conversation, calls, iteration, tracker, pc, awaited>>
    BY <1>17 DEF ToolStep, streamingVars
  <2>2. Len(dispatch') = Len(dispatch)
    BY <1>1, <1>17, ToolStepKeepsLength
  <2> QED BY <1>1, <2>1, <2>2, ConversationRests
<1> QED BY <1>3, <1>4, <1>5, <1>6, <1>7, <1>8, <1>9, <1>10, <1>11, <1>12, <1>13, <1>14, <1>15,
           <1>16, <1>17 DEF StreamingNext, StreamModelAnswers

LEMMA ConversationAlways == Spec => []ConversationInvariant
<1>1. Init => ConversationInvariant
  <2> SUFFICES ASSUME Init PROVE ConversationInvariant
    OBVIOUS
  <2>1. /\ pc = "start" /\ iteration = 0 /\ awaited = 0 /\ tracker = UsageTracker
        /\ conversation = buildInitialConversation(History)
    BY Zenon DEF Init, AgentInit, StreamingInit
  <2>2. conversation \in Openings
    BY <2>1, ConversationOpens
  <2>3. /\ Prompted(conversation) /\ conversation \in Seq(Messages)
        /\ DOMAIN conversation = 1 .. Len(conversation)
        /\ \A p \in 1 .. Len(conversation) :
             /\ conversation[p].role # "tool"
             /\ conversation[p].role = "assistant" => conversation[p].calls = <<>>
    BY <2>2 DEF Openings
  <2>4. Asking(conversation) = {} /\ ToolAnswers(conversation) = {} /\ FailedAnswers(conversation) = {}
    BY <2>3 DEF Asking, ToolAnswers, FailedAnswers
  <2>5. Closed(conversation)
    BY <2>3, <2>4 DEF Closed
  <2>6. tracker = Tally(conversation, iteration, 0)
    BY <2>1, <2>4, FS_EmptySet DEF Tally, UsageTracker
  <2> QED BY <2>1, <2>3, <2>5, <2>6 DEF ConversationInvariant, Batching
<1>2. TypeInvariant /\ StreamTypes /\ ConversationInvariant /\ [Next]_vars => ConversationInvariant'
  <2> SUFFICES ASSUME TypeInvariant, StreamTypes, ConversationInvariant, [Next]_vars
               PROVE  ConversationInvariant'
    OBVIOUS
  <2>1. CASE UNCHANGED <<handler, pc, iteration, conversation, calls, dispatch, tracker, awaited>>
    BY <2>1, ConversationRests
  <2>2. CASE AbortRun
    BY <2>1, <2>2 DEF AbortRun, Abort, dispatchVars, streamingVars
  <2>3. CASE UNCHANGED vars
    BY <2>1, <2>3 DEF vars, agentVars, dispatchVars, streamingVars
  <2>4. CASE BackgroundNext /\ UNCHANGED streamingVars
    BY <2>4, BackgroundKeepsConversation
  <2>5. CASE StreamingNext
    BY <2>5, StreamingKeepsConversation
  <2> QED BY <2>2, <2>3, <2>4, <2>5 DEF Next
<1> QED BY <1>1, <1>2, TypesAlways, StreamsAlways, PTL DEF Spec

(* Whenever the model is called, each of its earlier calls has its answer, *)
(* in place; the request is the prompt and the newest messages; and the    *)
(* statistics count what the conversation holds, whichever handler runs    *)
(* and whatever the tools, the callbacks and an abort do.                  *)
THEOREM ConversationsSound == Spec => []ConversationSound
BY ConversationAlways, TypesAlways, SoundWhenClosed, PTL
=============================================================================
