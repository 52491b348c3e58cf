--------------------------- MODULE StorageClient ---------------------------
(***************************************************************************)
(* An InMemoryTaskStorage under every legal sequence of calls: tasks are   *)
(* minted once (ids are UUIDs), resumed only while paused, updated along   *)
(* the lifecycle, and stored as dead letters in a terminal state, which    *)
(* may come late and even twice.  home records the context an issued id    *)
(* was created with; no caller ever changes it.                            *)
(***************************************************************************)
EXTENDS TaskStorage

CONSTANTS NoContext,       \* home of an id not issued yet
          RetentionCaps    \* caps the retention sweep is called with

ASSUME NoContextAssumption == NoContext \notin Context

VARIABLE home

clientVars == <<storageVars, home>>

TypeOK == StorageTypeOK /\ home \in [TaskId -> Context \cup {NoContext}]

Init == StorageInit /\ home = [id \in TaskId |-> NoContext]

Issued(id) == home[id] # NoContext

Issue(id, c) == ~Issued(id) /\ home' = [home EXCEPT ![id] = c]

Snapshot(id, state) ==
  [id |-> id, context |-> home[id], state |-> state, messages |-> {}]

EnqueueNew(id, c) ==
  /\ Issue(id, c)
  /\ enqueue(createTask(id, c, {}))
  /\ UNCHANGED pushConfigs

Recreate(id, c, state) ==
  /\ Issue(id, c)
  /\ createActive([createTask(id, c, {}) EXCEPT !.state = state])
  /\ UNCHANGED <<queueVars, pushConfigs>>

EnqueueResumed(id) ==
  /\ isActive(id)
  /\ isPaused(activeTasks[id].state)
  /\ enqueue(transitionTask(activeTasks[id], "IN_PROGRESS"))
  /\ UNCHANGED <<pushConfigs, home>>

Update(id, state) ==
  /\ isActive(id)
  /\ canTransition(activeTasks[id].state, state)
  /\ updateActive(transitionTask(activeTasks[id], state))
  /\ UNCHANGED <<queueVars, pushConfigs, home>>

Retire(id, state) ==
  /\ Issued(id)
  /\ isTerminal(state)
  /\ storeDeadLetter(Snapshot(id, state))
  /\ UNCHANGED <<queueVars, pushConfigs, home>>

Unqueue(id) ==
  /\ Issued(id)
  /\ removeFromQueue(id)
  /\ UNCHANGED <<mapVars, pushConfigs, home>>

WorkerStep(w) ==
  /\ dequeue(w) \/ abortDequeue(w) \/ useResolved(w)
  /\ UNCHANGED <<mapVars, pushConfigs, home>>

CleanUp ==
  /\ \/ cleanupCompleted
     \/ \E completedCap, failedCap \in RetentionCaps :
          cleanupTasksWithRetention(completedCap, failedCap)
  /\ UNCHANGED <<queueVars, pushConfigs, home>>

DropContext(c) == deleteContext(c) /\ UNCHANGED home

Configure(id, config) ==
  /\ setPushConfig(id, config) \/ deletePushConfig(id, config)
  /\ UNCHANGED <<mapVars, queueVars, home>>

Next ==
  \/ \E id \in TaskId, c \in Context :
       EnqueueNew(id, c) \/ \E s \in TASK_STATE \ TERMINAL_STATES : Recreate(id, c, s)
  \/ \E id \in TaskId : EnqueueResumed(id) \/ Unqueue(id)
  \/ \E id \in TaskId, s \in TASK_STATE : Update(id, s) \/ Retire(id, s)
  \/ \E w \in Worker : WorkerStep(w)
  \/ CleanUp
  \/ \E c \in Context : DropContext(c)
  \/ \E id \in TaskId, config \in ConfigId : Configure(id, config)

Spec == Init /\ [][Next]_clientVars

-----------------------------------------------------------------------------

(* The context index names exactly the stored tasks of each context: every *)
(* path that stores, moves or evicts a task keeps it in step, so that      *)
(* getContexts and deleteContext miss nothing.                             *)
IndexExact ==
  \A c \in Context, id \in TaskId :
    id \in contextIndex[c] <=> Known(id) /\ home[id] = c

(* The queue is a work queue in the sense of WorkQueue: FIFO on both       *)
(* sides, each entry to one worker.                                        *)
Q == INSTANCE WorkQueue WITH
       Item <- Task, Dequeuer <- Worker, Nothing <- NoTask,
       backlog <- queue, demand <- waiters, outcome <- resolved

WorkQueueSpec == Q!Spec
=============================================================================
