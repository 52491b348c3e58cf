--------------------------- MODULE GuardedSystem ---------------------------
(***************************************************************************)
(* The request handlers of TaskServer with the guarded background worker   *)
(* of src/examples/tck-sut/server.ts (runWorker): a worker drops a dequeued*)
(* task whose stored state is not the one it was queued with, otherwise it *)
(* runs the synchronous task handler on it and stores the result.          *)
(***************************************************************************)
EXTENDS TaskServer

vars == serverVars

Init == ServerInit

(* Faulty variant: the worker only checks that the task is still known.    *)
RunnableIfKnown(entry) == Known(entry.id)

(* runWorker's guard: the stored task is still in the state of the entry.  *)
Runnable(entry) == Known(entry.id) /\ StateOf(entry.id) = entry.state

WorkerStarts(w) ==
  /\ resolved[w] = NoTask
  /\ dequeue(w)
  /\ UNCHANGED <<mapVars, pushConfigs, home, requestVars, registryVars>>

WorkerSkips(w) ==
  /\ resolved[w] # NoTask
  /\ ~Runnable(resolved[w])
  /\ dequeue(w)
  /\ UNCHANGED <<mapVars, pushConfigs, home, requestVars, registryVars>>

(* What handleTask makes of the task; a throw is recorded as FAILED.       *)
handleTask(task) ==
  {transitionTask(task, state) : state \in {"COMPLETED", "FAILED", "INPUT_REQUIRED"}}

WorkerRuns(w) ==
  /\ resolved[w] # NoTask
  /\ Runnable(resolved[w])
  /\ isActive(resolved[w].id)
  /\ \E result \in handleTask(resolved[w]) :
       IF isTerminal(result.state) THEN storeDeadLetter(result) ELSE setActive(result)
  /\ dequeue(w)
  /\ UNCHANGED <<pushConfigs, home, requestVars, registryVars>>

WorkerStep(w) == WorkerStarts(w) \/ WorkerSkips(w) \/ WorkerRuns(w)

Next == ServerNext \/ \E w \in Worker : WorkerStep(w)

Spec == Init /\ [][Next]_vars

(* Workers loop, timers of the poll loops fire, and executors end: they    *)
(* return, throw or observe their aborted signal.                          *)
Fairness ==
  /\ \A w \in Worker : WF_vars(WorkerStep(w))
  /\ \A r \in Sender : WF_vars(Poll(r))
  /\ \A s \in Streamer : WF_vars(StreamReturns(s) \/ StreamThrows(s))
  /\ \A b \in Subscriber : WF_vars(PollSubscription(b))

FairSpec == Spec /\ Fairness

-----------------------------------------------------------------------------
(* Who will move a task on                                                 *)

QueueOwners(id) == {i \in DOMAIN queue : queue[i].id = id /\ Runnable(queue[i])}

HandedOwners(id) ==
  {w \in Worker : resolved[w] # NoTask /\ resolved[w].id = id /\ Runnable(resolved[w])}

StreamOwners(id) ==
  {s \in Streamer : Live(s) /\ stream[s].task.id = id /\ stream[s].task.state = "IN_PROGRESS"}

Unsettled(id) == Known(id) /\ StateOf(id) \in {"PENDING", "IN_PROGRESS"}

(* A task that is pending or in progress is in exactly one pair of hands:  *)
(* a queue entry a worker will not drop, a worker that holds it, or a live *)
(* stream.  So no task is executed twice (runWorker's guard against the    *)
(* entries SendStreamingMessage leaves in the queue) and none is forgotten.*)
(* A stream still at work on any other task has been told to stop.         *)
ExactlyOneOwner ==
  \A id \in TaskId :
    IF Unsettled(id)
    THEN Cardinality(QueueOwners(id)) + Cardinality(HandedOwners(id))
           + Cardinality(StreamOwners(id)) = 1
    ELSE \A s \in StreamOwners(id) : stream[s].aborted

(* CancelTask can stop what runs: the controller of a stream that works    *)
(* and has not been aborted is the one registered for its task, whatever   *)
(* other streams on the task register and unregister.                      *)
CancellationReaches ==
  /\ \A id \in TaskId : \A s \in StreamOwners(id) :
       stream[s].aborted \/ controllers[id] = s
  /\ \A id \in TaskId :
       controllers[id] # NoStream =>
         Live(controllers[id]) /\ stream[controllers[id]].task.id = id

(* A subscriber that waits on a bus is fed: the bus is open and a live     *)
(* stream on the subscriber's task still holds it and will close it.       *)
SubscribersFed ==
  \A b \in Subscriber :
    subscriber[b].phase = "attached" =>
      /\ subscriber[b].bus \notin closedBuses
      /\ \E s \in Streamer : /\ Live(s)
                             /\ stream[s].bus = subscriber[b].bus
                             /\ stream[s].task.id = subscriber[b].id

(* A terminal state told to anybody, by a stream, on a bus or in an        *)
(* answer, is the state of the task for as long as it is stored.           *)
TerminalAnswersStand ==
  LET holds(id, state) == isTerminal(state) /\ Known(id) => StateOf(id) = state
  IN  /\ \A s \in Streamer : stream[s].task # NoTask => holds(stream[s].task.id, stream[s].shown)
      /\ \A b \in Subscriber : subscriber[b].id # NoId => holds(subscriber[b].id, subscriber[b].seen)
      /\ \A r \in Sender :
           sender[r].latest # NoTask => holds(sender[r].latest.id, sender[r].latest.state)

(* A worker never throws out of its loop: updateActive after the guard     *)
(* finds the task active, since only terminal tasks are dead letters.      *)
WorkersSurvive ==
  \A w \in Worker :
    resolved[w] # NoTask /\ Runnable(resolved[w]) => isActive(resolved[w].id)

(* A task only ever moves along the lifecycle of task.ts, although several *)
(* parties store their own snapshots of it: no resurrection after a cancel,*)
(* no way back to PENDING.                                                 *)
LifecycleRespected ==
  [][\A id \in TaskId :
       Known(id) /\ Known(id)' => StateOf(id)' \in Reachable[StateOf(id)]]_vars

(* A message the server accepted for a task stays in the task's history.   *)
AcceptedMessagesKept ==
  [][\A id \in TaskId :
       Known(id) /\ Known(id)' => getTask(id).messages \subseteq getTask(id)'.messages]_vars

(* A blocking SendMessage is answered.                                     *)
SendersAnswered ==
  \A r \in Sender : sender[r].phase = "polling" ~> sender[r].phase # "polling"

(* A subscriber attached to a running stream is let go when it ends.       *)
SubscribersReleased ==
  \A b \in Subscriber : subscriber[b].phase = "attached" ~> subscriber[b].phase # "attached"

-----------------------------------------------------------------------------
(* What the documentation says and the code does not do                    *)

(* "Dead letter - terminal tasks": a task in a terminal state is out of    *)
(* the active map once no stream is at work on it (README.md, task-storage *)
(* .ts: "Active - ... before terminal").                                   *)
TerminalsAreDeadLetters ==
  \A id \in TaskId :
    isActive(id) /\ isTerminal(activeTasks[id].state) =>
      \E s \in Streamer : Live(s) /\ stream[s].task.id = id

(* A stream that closes on a connected client has shown it a final status, *)
(* a terminal one or INPUT_REQUIRED (message-stream.ts, events 5 and 6).   *)
StreamsEndWithAStatus ==
  \A s \in Streamer :
    stream[s].phase = "done" /\ ~stream[s].gone =>
      isTerminal(stream[s].shown) \/ isPaused(stream[s].shown)
=============================================================================
